---- MODULE Spec2Model ----
(***************************************************************************)
(* Model of the LinkedIn scraper's session manager                          *)
(* (services/linkedin_scraper.py): the session registry _active_sessions,   *)
(* guarded by _sessions_lock, and the three entry points that touch it,     *)
(* scrape_linkedin_profile, resume_linkedin_session and cleanup_session,    *)
(* run by concurrent callers.                                               *)
(*                                                                          *)
(* Granularity.  A block `with _sessions_lock:` is one action: the lock     *)
(* makes such blocks mutually exclusive, so no other registry access can    *)
(* fall inside one.  Every driver operation performed outside the lock      *)
(* (a poll check, the extraction pipeline, a quit) is its own action, so    *)
(* that other callers can act between two of them.                          *)
(*                                                                          *)
(* Environment.  The page a driver shows is chosen freely at every check    *)
(* (the user may or may not have approved the challenge).  A driver         *)
(* operation may raise at any time, and always raises once the browser has  *)
(* been quit.  The clock is advanced by the environment.                    *)
(* webdriver.Chrome(...) may fail; set_page_load_timeout on the driver it   *)
(* has just returned is taken to succeed.                                   *)
(*                                                                          *)
(* Modelled apart from the session manager, each under a specification of   *)
(* its own: the time budget (_check_budget), step 7 of the extraction       *)
(* pipeline, which combines the texts, and the background task              *)
(* background_sync_linkedin of backend/app/routes/v1/linkedin.py.           *)
(***************************************************************************)
EXTENDS Integers, FiniteSets, Sequences, TLC

\* ------------------------------------------------------------------ bounds
MaxBrowsers == 2
MaxTicks == 2
MaxLoginWait == 3
MaxChecks == 2
MaxRuns == 2
MaxScrolls == 3
MaxItems == 2

\* -------------------------------------------------------- program constants
_SESSION_TTL_SECONDS == 120
_LOGIN_POLL_INTERVAL == 3
_TIME_BUDGET_SECONDS == 90
ScrollStep == 800

\* ------------------------------------------------------------ input domains
Procs == {"t1", "t2"}
Keys == {"u1"}
None == "None"
Evicted == "Evicted"
\* Each caller asks for its own profile, so that the URL a session was parked
\* with and the URL a resuming caller passes can differ.
UrlOf == [p \in Procs |-> IF p = "t1" THEN "urlA" ELSE "urlB"]
Urls == {UrlOf[p] : p \in Procs}
TickSteps == {61}
LoginWaits == {MaxLoginWait}
Browsers == 1..MaxBrowsers
NoDriver == 0

\* What one poll check can see: whether current_url is a login-like URL, and
\* which of the words the code looks for occur in the sampled body text:
\* "incorrect" stands for incorrect/wrong, "verify" for the six keywords both
\* checks share, "confirm" for confirm/recognize.
Words == {"incorrect", "verify", "confirm"}
Pages == [loginUrl : BOOLEAN, words : SUBSET Words]

NoPage == [loginUrl |-> FALSE, words |-> {"none"}]

\* The combined text _scrape_profile_content validates: its length, how many
\* of its characters are leading or trailing whitespace, and which of the
\* sample words occur in it.  Length 0 stands for an empty or missing text.
\* With it go the URL the pipeline navigated to, whether the page body showed
\* a page-not-found message, and the verdict of the validation.
Lens == {0, 200, 250}
Pads == {0, 1}
Tokens == {"Experience", "engineer"}
Texts == {t \in [len : Lens, pad : Pads, tokens : SUBSET Tokens] :
            /\ t.pad <= t.len
            /\ t.len = 0 => t.tokens = {}}
NoText == [text |-> [len |-> 0, pad |-> 0, tokens |-> {}], notFound |-> FALSE,
           verdict |-> None, url |-> None]

VARIABLES
    registry,            \* _active_sessions: key -> [driver, profile_url, created]
    browsers,            \* browser id -> "none" | "alive" | "quit"
    parked,              \* history: browser id -> the key scrape parked it
                         \* under, or Evicted once a later park has quit it
    now,                 \* time.time()
    ticks,               \* number of clock advances so far
    pc,                  \* each caller's position
    op,                  \* the entry point a caller is in
    session_id,          \* argument session_id (None when not given)
    profile_url,         \* argument profile_url
    login_wait,          \* argument login_wait
    driver,              \* local driver
    login_elapsed,       \* _poll_login's login_elapsed
    login_success,       \* _poll_login's login_success
    challenge_detected,  \* _poll_login's challenge_detected
    kept,                \* session_cached (scrape) / keep_session (resume)
    sweep_now,           \* _cleanup_stale_sessions' local now
    outcome,             \* how the call ended
    sampled,             \* observation: the page _poll_login sampled last
    combined,            \* observation: the text the content gates judged
    budget,              \* a call's start_time and its _check_budget calls
    sync,                \* background_sync_linkedin: its run and the tables
    parts,               \* the texts step 7 of the extraction combines
    scroll,              \* _progressive_scroll: its locals and the page
    pipe,                \* one call's extraction pipeline and its clock
    lock                 \* _sessions_lock and the locals of the locked blocks

locals == <<op, session_id, profile_url, login_wait, driver, login_elapsed,
            login_success, challenge_detected, kept, sweep_now, outcome>>
shared == <<registry, browsers, parked>>
observed == <<sampled, combined>>
apart == <<budget, sync, parts, scroll, pipe, lock>>
clock == <<now, ticks>>
vars == <<registry, browsers, parked, now, ticks, pc, op, session_id,
          profile_url, login_wait, driver, login_elapsed, login_success,
          challenge_detected, kept, sweep_now, outcome, sampled, combined,
          budget, sync, parts, scroll, pipe, lock>>

\* ---------------------------------------------------------------- helpers
\* dict.pop(k, None): the map without k.
Pop(r, k) == [x \in (DOMAIN r) \ {k} |-> r[x]]

\* r[k] = e
Put(r, k, e) == [x \in (DOMAIN r) \cup {k} |-> IF x = k THEN e ELSE r[x]]

\* driver.quit() on every browser of B.
QuitAll(bs, B) == [b \in Browsers |-> IF b \in B THEN "quit" ELSE bs[b]]

\* The parking record of the browsers of B is dropped when they are quit.
Forget(pk, B) == [b \in Browsers |-> IF b \in B THEN None ELSE pk[b]]

\* The drivers the registry refers to.
Drivers(r) == {r[k].driver : k \in DOMAIN r}

\* Mutant of StaleIds: a session is stale from the age of the TTL on.
StaleIds_AtLeast(r, t) ==
    {k \in DOMAIN r : t - r[k].created >= _SESSION_TTL_SECONDS}

\* The sessions a sweep that read the clock at time t removes.
StaleIds(r, t) == {k \in DOMAIN r : t - r[k].created > _SESSION_TTL_SECONDS}

\* The entry scrape parks.
NewSession(d, u, t) == [driver |-> d, profile_url |-> u, created |-> t]

\* How a call ends: the text returned or the error raised; a
\* SecurityChallengeError carries a session_id.
Result(kind) == [kind |-> kind, session_id |-> None]
Challenge(k) == [kind |-> "SecurityChallengeError", session_id |-> k]
NoResult == Result(None)

\* Mutant of HardFailure: the words of a failed login are not looked for.
HardFailure_Never(page) == FALSE

\* _poll_login's tests on one sample of the page.
HardFailure(page) == "incorrect" \in page.words
PastLogin(page) == ~page.loginUrl
LoopChallenge(page) == page.words \cap {"verify", "confirm"} # {}
FinalChallenge(page) == page.loginUrl /\ "verify" \in page.words

\* The keywords of _scrape_profile_content's signal gate.
ScraperSignals == {"experience", "education", "skills", "===section:",
                   "present", "full-time", "part-time"}

\* The keywords of the caller's quality gate (linkedin_fetch_agent).
ProfileSignals == {"experience", "education", "skills", "===section:",
                   "present", "full-time", "part-time", "yrs", "mos",
                   "manager", "engineer", "developer", "analyst", "lead",
                   "director", "consultant", "university", "bachelor",
                   "master"}

\* len(combined.strip())
Trimmed(text) == text.len - text.pad

\* str.lower() on a word of the text.
Lower(token) == IF token = "Experience" THEN "experience" ELSE token

\* any(kw in combined_lower for kw in [...])
HasSignal(text, keywords) == \E t \in text.tokens : Lower(t) \in keywords

\* Mutant of ContentGate: the text is returned whatever the gates say.
ContentGate_Open(text, notFound) == "Text"

\* Mutant of ContentGate: the signal gate is evaluated before the length
\* gate.
ContentGate_SignalFirst(text, notFound) ==
    IF ~HasSignal(text, ScraperSignals) THEN "NoProfileSignal"
    ELSE IF Trimmed(text) < 200 THEN
        IF notFound THEN "ProfileNotFound" ELSE "TooShort"
    ELSE "Text"

\* The validation at the end of _scrape_profile_content: the text is
\* returned, or one of three ValueErrors is raised.  notFound tells whether
\* the first 500 characters of the page body show a page-not-found message.
ContentGate(text, notFound) ==
    IF Trimmed(text) < 200 THEN
        IF notFound THEN "ProfileNotFound" ELSE "TooShort"
    ELSE IF ~HasSignal(text, ScraperSignals) THEN "NoProfileSignal"
    ELSE "Text"

\* Mutant of CheckBudget: the budget still remains at the limit itself.
CheckBudget_Inclusive(start_time, t) == t - start_time <= _TIME_BUDGET_SECONDS

\* _check_budget(start_time), called when time.time() returns t.
CheckBudget(start_time, t) == t - start_time < _TIME_BUDGET_SECONDS

\* A call's time budget: its start_time, the number of _check_budget calls
\* made on it, the clock reading and the answer of the latest one, and
\* whether some call on it has answered False.
NoBudget == [start_time |-> 0, checks |-> 0, at |-> 0, ok |-> TRUE,
             lapsed |-> FALSE]

\* One text that step 7 combines: its length and how many of its characters
\* are leading or trailing whitespace.  Length 0 is the empty string (or
\* None), length 1 with one character of whitespace a blank text.  The other
\* lengths put the trimmed length on both sides of 100 and 200.
PartLens == {0, 1, 101, 102, 200, 201}
PartTexts == {t \in [len : PartLens, pad : Pads] : t.pad <= t.len}
Empty == [len |-> 0, pad |-> 0]

\* The texts of one extraction and what step 7 made of them: the pieces it
\* joined, in order, and the length of the joined text.
NoParts == [section |-> Empty, detail |-> Empty, raw |-> Empty,
            pieces |-> <<>>, len |-> 0, step |-> "extract"]

\* background_sync_linkedin: where a run stands, what the pipeline did in
\* it, whether the run let an exception escape, and the two tables it writes
\* to with their lengths at the start of the run.
NoSync == [pc |-> "idle", runs |-> 0, creds |-> FALSE, pipeline |-> None,
           invoked |-> 0, raised |-> FALSE, activity |-> <<>>,
           resumes |-> <<>>, activity0 |-> 0, resumes0 |-> 0]

\* Mutant of Combine: substantial section text is preferred to the detail
\* pages' text.
Combine_SectionFirst(section, detail, raw) ==
    IF section.len > 0 /\ Trimmed(section) > 100 THEN
        [pieces |-> <<"section">>, len |-> section.len]
    ELSE IF detail.len > 0 /\ Trimmed(detail) > 100 THEN
        [pieces |-> <<"section", "detail">>,
         len |-> section.len + 2 + detail.len]
    ELSE [pieces |-> <<"raw">>, len |-> raw.len]

\* Step 7 of _scrape_profile_content: the texts that make up combined, in
\* order, and its length; two texts are joined by "\n\n".  raw is what the
\* script reading main.innerText (or body.innerText) returns.
Combine(section, detail, raw) ==
    IF detail.len > 0 /\ Trimmed(detail) > 100 THEN
        IF Trimmed(section) < 200 /\ raw.len > 0 THEN
            [pieces |-> <<"raw", "detail">>,
             len |-> raw.len + 2 + detail.len]
        ELSE
            [pieces |-> <<"section", "detail">>,
             len |-> section.len + 2 + detail.len]
    ELSE IF section.len > 0 /\ Trimmed(section) > 100 THEN
        [pieces |-> <<"section">>, len |-> section.len]
    ELSE [pieces |-> <<"raw">>, len |-> raw.len]

\* _progressive_scroll: where it stands, the page it scrolls (its
\* scrollHeight, how many more scroll increments make it grow and by how
\* much), the function's locals, the window's scroll position, the number of
\* incremental scrolls made, the driver operation made last and whether one
\* raised.
NoScroll == [pc |-> "idle", height |-> 0, grows |-> 0, growth |-> 0, k |-> 0,
             max_scrolls |-> 0, last_height |-> 0, scroll_position |-> 0,
             i |-> 0, position |-> 0, scrolls |-> 0, last |-> None,
             raised |-> FALSE]

\* One call's extraction pipeline: where it stands, the call's start_time,
\* the clock reading at which the login poll ended, the numbers of show-all
\* buttons and of detail links on the page, the buttons gone through, the
\* result of each detail-page visit made, the budget-gated step started last
\* and the one declined last with the clock reading of its budget check, the
\* number of single clicks and visits that failed, whether an exception left
\* the pipeline, and the number of detail texts in the text validated.
NoStep == [step |-> None, at |-> 0]
NoPipe == [pc |-> "idle", start_time |-> 0, login_end |-> 0, buttons |-> 0,
           links |-> 0, b |-> 0, visits |-> <<>>, started |-> NoStep,
           declined |-> NoStep, failures |-> 0, raised |-> FALSE,
           validated |-> None]

\* _sessions_lock and the callers of the locked blocks, statement by
\* statement: the thread holding the lock, the thread whose last statement
\* read or wrote _active_sessions, the thread whose last statement called
\* quit() on a driver, and each thread's frame: its position, its session_id,
\* the sweep's now, stale_ids and sid, the entry a pop or get returned (found
\* tells whether it returned one) and the local driver.
NoEntry == [driver |-> NoDriver, profile_url |-> None, created |-> 0]
NoFrame == [at |-> "idle", session_id |-> None, now |-> 0, stale_ids |-> {},
            sid |-> None, found |-> FALSE, data |-> NoEntry,
            driver |-> NoDriver]
NoLock == [holder |-> None, touched |-> None, quit |-> None,
           frame |-> [p \in Procs |-> NoFrame]]

\* ------------------------------------------------------------------- Init
Init ==
    /\ registry = [k \in {} |-> NewSession(NoDriver, None, 0)]
    /\ browsers = [b \in Browsers |-> "none"]
    /\ parked = [b \in Browsers |-> None]
    /\ now = 0
    /\ ticks = 0
    /\ pc = [p \in Procs |-> "idle"]
    /\ op = [p \in Procs |-> None]
    /\ session_id = [p \in Procs |-> None]
    /\ profile_url = [p \in Procs |-> None]
    /\ login_wait = [p \in Procs |-> 0]
    /\ driver = [p \in Procs |-> NoDriver]
    /\ login_elapsed = [p \in Procs |-> 0]
    /\ login_success = [p \in Procs |-> FALSE]
    /\ challenge_detected = [p \in Procs |-> FALSE]
    /\ kept = [p \in Procs |-> FALSE]
    /\ sweep_now = [p \in Procs |-> 0]
    /\ outcome = [p \in Procs |-> NoResult]
    /\ sampled = [p \in Procs |-> NoPage]
    /\ combined = [p \in Procs |-> NoText]
    /\ budget = NoBudget
    /\ sync = NoSync
    /\ parts = NoParts
    /\ scroll = NoScroll
    /\ pipe = NoPipe
    /\ lock = NoLock

\* A call ends outside any try block: the step into pc = "done" is the moment
\* the entry point returns or raises.
Exit(p, result) ==
    /\ pc' = [pc EXCEPT ![p] = "done"]
    /\ outcome' = [outcome EXCEPT ![p] = result]

\* A return or an exception leaves the try block: the finally clause runs
\* next.
Leave(p, result) ==
    /\ pc' = [pc EXCEPT ![p] = "finally"]
    /\ outcome' = [outcome EXCEPT ![p] = result]

\* ------------------------------------------------ scrape_linkedin_profile
\* The call, up to _cleanup_stale_sessions reading the clock.
ScrapeCall(p, k, u, w) ==
    /\ pc[p] = "idle"
    /\ pc' = [pc EXCEPT ![p] = "sweep"]
    /\ op' = [op EXCEPT ![p] = "scrape"]
    /\ session_id' = [session_id EXCEPT ![p] = k]
    /\ profile_url' = [profile_url EXCEPT ![p] = u]
    /\ login_wait' = [login_wait EXCEPT ![p] = w]
    /\ sweep_now' = [sweep_now EXCEPT ![p] = now]
    /\ UNCHANGED <<apart, observed, shared, clock, driver, login_elapsed, login_success,
                   challenge_detected, kept, outcome>>

\* Mutant of ScrapeSweep: the sweep looks at nothing.
ScrapeSweep_Skip(p) ==
    /\ pc[p] = "sweep"
    /\ pc' = [pc EXCEPT ![p] = "launch"]
    /\ sweep_now' = [sweep_now EXCEPT ![p] = 0]
    /\ UNCHANGED <<apart, observed, shared, clock, op, session_id, profile_url,
                   login_wait, driver, login_elapsed, login_success,
                   challenge_detected, kept, outcome>>

\* _cleanup_stale_sessions' locked block.
ScrapeSweep(p) ==
    /\ pc[p] = "sweep"
    /\ LET stale == StaleIds(registry, sweep_now[p]) IN
        /\ browsers' = QuitAll(browsers, {registry[k].driver : k \in stale})
        /\ parked' = Forget(parked, {registry[k].driver : k \in stale})
        /\ registry' = [k \in (DOMAIN registry) \ stale |-> registry[k]]
    /\ pc' = [pc EXCEPT ![p] = "launch"]
    /\ sweep_now' = [sweep_now EXCEPT ![p] = 0]
    /\ UNCHANGED <<apart, observed, clock, op, session_id, profile_url, login_wait,
                   driver, login_elapsed, login_success, challenge_detected,
                   kept, outcome>>

\* Mutant of ScrapeLaunch: the browser is launched first and the credentials
\* are looked at afterwards.
ScrapeLaunch_BrowserFirst(p) ==
    /\ pc[p] = "launch"
    /\ \E creds \in BOOLEAN, b \in Browsers :
        /\ browsers[b] = "none"
        /\ \A c \in Browsers : c < b => browsers[c] # "none"
        /\ browsers' = [browsers EXCEPT ![b] = "alive"]
        /\ driver' = [driver EXCEPT ![p] = b]
        /\ IF ~creds THEN Exit(p, Result("CredentialsMissing"))
           ELSE pc' = [pc EXCEPT ![p] = "login"] /\ UNCHANGED outcome
    /\ UNCHANGED <<apart, observed, registry, parked, clock, op, session_id,
                   profile_url, login_wait, login_elapsed, login_success,
                   challenge_detected, kept, sweep_now>>

\* The credentials check, then webdriver.Chrome(...).
ScrapeLaunch(p) ==
    /\ pc[p] = "launch"
    /\ \E creds \in BOOLEAN, started \in BOOLEAN :
        IF ~creds THEN
            /\ Exit(p, Result("CredentialsMissing"))
            /\ UNCHANGED <<browsers, driver>>
        ELSE IF ~started THEN
            /\ Exit(p, Result("Error"))
            /\ UNCHANGED <<browsers, driver>>
        ELSE
            /\ \E b \in Browsers :
                /\ browsers[b] = "none"
                /\ \A c \in Browsers : c < b => browsers[c] # "none"
                /\ browsers' = [browsers EXCEPT ![b] = "alive"]
                /\ driver' = [driver EXCEPT ![p] = b]
            /\ pc' = [pc EXCEPT ![p] = "login"]
            /\ UNCHANGED outcome
    /\ UNCHANGED <<apart, observed, registry, parked, clock, op, session_id, profile_url,
                   login_wait, login_elapsed, login_success,
                   challenge_detected, kept, sweep_now>>

\* Step 1: open the login page and submit the credentials.
ScrapeLogin(p) ==
    /\ pc[p] = "login"
    /\ \E raised \in BOOLEAN :
        IF raised THEN Leave(p, Result("Error"))
        ELSE /\ pc' = [pc EXCEPT ![p] = "poll"]
             /\ UNCHANGED outcome
    /\ UNCHANGED <<apart, observed, shared, clock, op, session_id, profile_url, login_wait,
                   driver, login_elapsed, login_success, challenge_detected,
                   kept, sweep_now>>

\* ------------------------------------------------------------ _poll_login
\* _poll_login is over: its local login_elapsed is gone.
PollReturn(p) == login_elapsed' = [login_elapsed EXCEPT ![p] = 0]

\* One iteration of the polling loop in which a driver operation raises.
PollCheckRaises(p) ==
    /\ pc[p] = "poll"
    /\ login_elapsed[p] < login_wait[p]
    /\ Leave(p, Result("Error"))
    /\ PollReturn(p)
    /\ UNCHANGED <<shared, clock, op, session_id, profile_url, login_wait,
                   driver, login_success, challenge_detected, kept, sweep_now>>

\* What one iteration of the polling loop makes of the page it samples.
PollVerdict(page) ==
    IF HardFailure(page) THEN "failed"
    ELSE IF PastLogin(page) THEN "success"
    ELSE IF LoopChallenge(page) THEN "challenge"
    ELSE "waiting"

\* Mutant of PollCheckEnds: an iteration that goes on waiting does not
\* count the wait.
PollCheckEnds_NoWait(p, verdict) ==
    /\ pc[p] = "poll"
    /\ login_elapsed[p] < login_wait[p]
    /\ browsers[driver[p]] = "alive"
    /\ IF verdict = "failed" THEN
            /\ Leave(p, Result("LoginFailed"))
            /\ PollReturn(p)
            /\ UNCHANGED <<login_success, challenge_detected>>
       ELSE IF verdict = "success" THEN
            /\ login_success' = [login_success EXCEPT ![p] = TRUE]
            /\ pc' = [pc EXCEPT ![p] = "decide"]
            /\ PollReturn(p)
            /\ UNCHANGED <<challenge_detected, outcome>>
       ELSE
            /\ challenge_detected' = [challenge_detected EXCEPT ![p] =
                                        @ \/ verdict = "challenge"]
            /\ UNCHANGED <<pc, login_elapsed, login_success, outcome>>
    /\ UNCHANGED <<shared, clock, op, session_id, profile_url, login_wait,
                   driver, kept, sweep_now>>

\* One iteration of the polling loop on a live driver, given what it makes
\* of the page.
PollCheckEnds(p, verdict) ==
    /\ pc[p] = "poll"
    /\ login_elapsed[p] < login_wait[p]
    /\ browsers[driver[p]] = "alive"
    /\ IF verdict = "failed" THEN
            /\ Leave(p, Result("LoginFailed"))
            /\ PollReturn(p)
            /\ UNCHANGED <<login_success, challenge_detected>>
       ELSE IF verdict = "success" THEN
            /\ login_success' = [login_success EXCEPT ![p] = TRUE]
            /\ pc' = [pc EXCEPT ![p] = "decide"]
            /\ PollReturn(p)
            /\ UNCHANGED <<challenge_detected, outcome>>
       ELSE
            /\ challenge_detected' = [challenge_detected EXCEPT ![p] =
                                        @ \/ verdict = "challenge"]
            /\ login_elapsed' = [login_elapsed EXCEPT ![p] =
                                        @ + _LOGIN_POLL_INTERVAL]
            /\ UNCHANGED <<pc, login_success, outcome>>
    /\ UNCHANGED <<shared, clock, op, session_id, profile_url, login_wait,
                   driver, kept, sweep_now>>

\* One iteration of the polling loop in which the driver shows page.
PollCheckOn(p, page) == PollCheckEnds(p, PollVerdict(page))

\* What an iteration can make of a page.
PollVerdicts == {PollVerdict(page) : page \in Pages}

\* One iteration of the polling loop.
PollCheck(p) ==
    /\ pc[p] = "poll"
    /\ \/ PollCheckRaises(p)
       \/ \E verdict \in PollVerdicts : PollCheckEnds(p, verdict)
    /\ UNCHANGED <<apart, observed>>

\* The final check after the full wait, in which a driver operation raises.
PollFinalRaises(p) ==
    /\ pc[p] = "poll"
    /\ ~(login_elapsed[p] < login_wait[p])
    /\ Leave(p, Result("Error"))
    /\ PollReturn(p)
    /\ UNCHANGED <<shared, clock, op, session_id, profile_url, login_wait,
                   driver, login_success, challenge_detected, kept, sweep_now>>

\* The final check after the full wait on a live driver, given whether it
\* finds a challenge.
PollFinalEnds(p, challenge) ==
    /\ pc[p] = "poll"
    /\ ~(login_elapsed[p] < login_wait[p])
    /\ browsers[driver[p]] = "alive"
    /\ challenge_detected' = [challenge_detected EXCEPT ![p] = @ \/ challenge]
    /\ pc' = [pc EXCEPT ![p] = "decide"]
    /\ PollReturn(p)
    /\ UNCHANGED <<shared, clock, op, session_id, profile_url, login_wait,
                   driver, login_success, kept, sweep_now, outcome>>

\* The final check after the full wait, in which the driver shows page.
PollFinalOn(p, page) == PollFinalEnds(p, FinalChallenge(page))

\* The final check after the full wait.
PollFinal(p) ==
    /\ pc[p] = "poll"
    /\ \/ PollFinalRaises(p)
       \/ \E challenge \in {FinalChallenge(page) : page \in Pages} :
                PollFinalEnds(p, challenge)
    /\ UNCHANGED <<apart, observed>>

\* The branch on _poll_login's result is taken: the two flags are not read
\* again.
Decided(p) ==
    /\ login_success' = [login_success EXCEPT ![p] = FALSE]
    /\ challenge_detected' = [challenge_detected EXCEPT ![p] = FALSE]

\* ------------------------------------ scrape_linkedin_profile, after login
\* Mutant of ScrapePark: the new entry overwrites the old one, whose driver
\* is not quit.
ScrapePark_NoEvict(p) ==
    /\ pc[p] = "decide" /\ op[p] = "scrape"
    /\ ~login_success[p] /\ challenge_detected[p] /\ session_id[p] # None
    /\ registry' = Put(registry, session_id[p],
                       NewSession(driver[p], profile_url[p], now))
    /\ parked' = [parked EXCEPT ![driver[p]] = session_id[p]]
    /\ kept' = [kept EXCEPT ![p] = TRUE]
    /\ Leave(p, Challenge(session_id[p]))
    /\ Decided(p)
    /\ UNCHANGED <<apart, observed, browsers, clock, op, session_id, profile_url, login_wait,
                   driver, login_elapsed, sweep_now>>

\* Mutant of ScrapePark: session_cached is not set, so the finally clause
\* quits the driver that was just parked.
ScrapePark_NotCached(p) ==
    /\ pc[p] = "decide" /\ op[p] = "scrape"
    /\ ~login_success[p] /\ challenge_detected[p] /\ session_id[p] # None
    /\ LET k == session_id[p]
           old == IF k \in DOMAIN registry THEN {registry[k].driver} ELSE {} IN
        /\ browsers' = QuitAll(browsers, old)
        /\ registry' = Put(Pop(registry, k), k,
                           NewSession(driver[p], profile_url[p], now))
        /\ parked' = [b \in Browsers |-> IF b = driver[p] THEN k
                                          ELSE IF b \in old THEN Evicted
                                          ELSE parked[b]]
    /\ Leave(p, Challenge(session_id[p]))
    /\ Decided(p)
    /\ UNCHANGED <<apart, observed, clock, op, session_id, profile_url, login_wait, driver,
                   login_elapsed, kept, sweep_now>>

\* Challenge pending and a session_id given: the locked block that parks the
\* driver, then session_cached = True and the raise.
ScrapePark(p) ==
    /\ pc[p] = "decide" /\ op[p] = "scrape"
    /\ ~login_success[p] /\ challenge_detected[p] /\ session_id[p] # None
    /\ LET k == session_id[p]
           old == IF k \in DOMAIN registry THEN {registry[k].driver} ELSE {} IN
        /\ browsers' = QuitAll(browsers, old)
        /\ registry' = Put(Pop(registry, k), k,
                           NewSession(driver[p], profile_url[p], now))
        /\ parked' = [b \in Browsers |-> IF b = driver[p] THEN k
                                          ELSE IF b \in old THEN Evicted
                                          ELSE parked[b]]
    /\ kept' = [kept EXCEPT ![p] = TRUE]
    /\ Leave(p, Challenge(session_id[p]))
    /\ Decided(p)
    /\ UNCHANGED <<apart, observed, clock, op, session_id, profile_url, login_wait, driver,
                   login_elapsed, sweep_now>>

\* Mutant of ScrapeNoSession: the test of session_id is missing, and the
\* driver is parked under the key None.
ScrapeNoSession_Parks(p) ==
    /\ pc[p] = "decide" /\ op[p] = "scrape"
    /\ ~login_success[p] /\ challenge_detected[p] /\ session_id[p] = None
    /\ registry' = Put(registry, None,
                       NewSession(driver[p], profile_url[p], now))
    /\ kept' = [kept EXCEPT ![p] = TRUE]
    /\ Leave(p, Challenge(None))
    /\ Decided(p)
    /\ UNCHANGED <<apart, observed, browsers, parked, clock, op, session_id, profile_url,
                   login_wait, driver, login_elapsed, sweep_now>>

\* Challenge pending and no session_id: the generic error.
ScrapeNoSession(p) ==
    /\ pc[p] = "decide" /\ op[p] = "scrape"
    /\ ~login_success[p] /\ challenge_detected[p] /\ session_id[p] = None
    /\ Leave(p, Result("ChallengeTimeout"))
    /\ Decided(p)
    /\ UNCHANGED <<apart, observed, shared, clock, op, session_id, profile_url, login_wait,
                   driver, login_elapsed, kept, sweep_now>>

\* Login succeeded, or ended inconclusively (then current_url is read for the
\* warning): the extraction pipeline starts.
ScrapeProceed(p) ==
    /\ pc[p] = "decide" /\ op[p] = "scrape"
    /\ login_success[p] \/ ~challenge_detected[p]
    /\ \E raised \in BOOLEAN :
        IF ~login_success[p] /\ (raised \/ browsers[driver[p]] # "alive")
        THEN Leave(p, Result("Error"))
        ELSE /\ pc' = [pc EXCEPT ![p] = "extract"]
             /\ UNCHANGED outcome
    /\ Decided(p)
    /\ UNCHANGED <<apart, observed, shared, clock, op, session_id, profile_url, login_wait,
                   driver, login_elapsed, kept, sweep_now>>

\* _scrape_profile_content in which a driver operation raises.
ExtractRaises(p) ==
    /\ pc[p] = "extract"
    /\ Leave(p, Result("Error"))
    /\ UNCHANGED <<shared, clock, op, session_id, profile_url, login_wait,
                   driver, login_elapsed, login_success, challenge_detected,
                   kept, sweep_now>>

\* _scrape_profile_content on a live driver, given the verdict of the
\* validation: the text is returned when it passed both gates, else a
\* ValueError is raised, whose message is the verdict.
ExtractEnds(p, verdict) ==
    /\ pc[p] = "extract"
    /\ browsers[driver[p]] = "alive"
    /\ Leave(p, Result(IF verdict = "Text"
                       THEN "Text" ELSE "ContentInsufficient"))
    /\ UNCHANGED <<shared, clock, op, session_id, profile_url, login_wait,
                   driver, login_elapsed, login_success, challenge_detected,
                   kept, sweep_now>>

\* _scrape_profile_content in which the driver yields the combined text.
ExtractOn(p, text, notFound) == ExtractEnds(p, ContentGate(text, notFound))

\* The verdicts the validation can come to.
Verdicts == {ContentGate(text, notFound) : text \in Texts, notFound \in BOOLEAN}

\* _scrape_profile_content.
Extract(p) ==
    /\ pc[p] = "extract"
    /\ \/ ExtractRaises(p)
       \/ \E verdict \in Verdicts : ExtractEnds(p, verdict)
    /\ UNCHANGED <<apart, observed>>

\* Mutant of ScrapeFinally: the quit sits in an except clause, so that a call
\* that returns text does not quit its driver.
ScrapeFinally_QuitOnErrorOnly(p) ==
    /\ pc[p] = "finally" /\ op[p] = "scrape"
    /\ IF kept[p] \/ outcome[p].kind = "Text" THEN
            /\ UNCHANGED <<browsers, parked, outcome>>
       ELSE /\ browsers' = QuitAll(browsers, {driver[p]})
            /\ parked' = Forget(parked, {driver[p]})
            /\ \E raised \in BOOLEAN :
                outcome' = [outcome EXCEPT ![p] =
                                IF raised THEN Result("Error") ELSE @]
    /\ pc' = [pc EXCEPT ![p] = "done"]
    /\ UNCHANGED <<apart, observed, registry, clock, op, session_id, profile_url, login_wait,
                   driver, login_elapsed, login_success, challenge_detected,
                   kept, sweep_now>>

\* Mutant of ScrapeFinally: a call that did not park also releases the
\* session parked under its session_id.
ScrapeFinally_Releases(p) ==
    /\ pc[p] = "finally" /\ op[p] = "scrape"
    /\ IF kept[p] THEN
            /\ UNCHANGED <<shared, outcome>>
       ELSE /\ LET old == IF session_id[p] \in DOMAIN registry
                          THEN {registry[session_id[p]].driver} ELSE {} IN
                /\ browsers' = QuitAll(browsers, {driver[p]} \cup old)
                /\ parked' = Forget(parked, {driver[p]} \cup old)
            /\ registry' = Pop(registry, session_id[p])
            /\ \E raised \in BOOLEAN :
                outcome' = [outcome EXCEPT ![p] =
                                IF raised THEN Result("Error") ELSE @]
    /\ pc' = [pc EXCEPT ![p] = "done"]
    /\ UNCHANGED <<apart, observed, clock, op, session_id, profile_url,
                   login_wait, driver, login_elapsed, login_success,
                   challenge_detected, kept, sweep_now>>

\* finally: if not session_cached: driver.quit().  This quit is not guarded:
\* if it raises, its exception is what the call ends with.
ScrapeFinally(p) ==
    /\ pc[p] = "finally" /\ op[p] = "scrape"
    /\ IF kept[p] THEN
            /\ UNCHANGED <<browsers, parked, outcome>>
       ELSE /\ browsers' = QuitAll(browsers, {driver[p]})
            /\ parked' = Forget(parked, {driver[p]})
            /\ \E raised \in BOOLEAN :
                outcome' = [outcome EXCEPT ![p] =
                                IF raised THEN Result("Error") ELSE @]
    /\ pc' = [pc EXCEPT ![p] = "done"]
    /\ UNCHANGED <<apart, observed, registry, clock, op, session_id, profile_url, login_wait,
                   driver, login_elapsed, login_success, challenge_detected,
                   kept, sweep_now>>

\* ------------------------------------------------ resume_linkedin_session
\* Mutant of ResumeCall: the test of session_data sits inside the try block,
\* so that the finally clause runs when there is no session.
ResumeCall_InsideTry(p, k, u, w) ==
    /\ pc[p] = "idle"
    /\ op' = [op EXCEPT ![p] = "resume"]
    /\ session_id' = [session_id EXCEPT ![p] = k]
    /\ profile_url' = [profile_url EXCEPT ![p] = u]
    /\ login_wait' = [login_wait EXCEPT ![p] = w]
    /\ IF k \in DOMAIN registry THEN
            /\ driver' = [driver EXCEPT ![p] = registry[k].driver]
            /\ pc' = [pc EXCEPT ![p] = "probe"]
            /\ UNCHANGED outcome
       ELSE /\ Leave(p, Result("NoActiveSession"))
            /\ UNCHANGED driver
    /\ UNCHANGED <<apart, observed, shared, clock, login_elapsed, login_success,
                   challenge_detected, kept, sweep_now>>

\* Mutant of ResumeCall: a session older than the TTL is not found.
ResumeCall_AgeCheck(p, k, u, w) ==
    /\ pc[p] = "idle"
    /\ op' = [op EXCEPT ![p] = "resume"]
    /\ session_id' = [session_id EXCEPT ![p] = k]
    /\ profile_url' = [profile_url EXCEPT ![p] = u]
    /\ login_wait' = [login_wait EXCEPT ![p] = w]
    /\ IF k \in DOMAIN registry \ StaleIds(registry, now) THEN
            /\ driver' = [driver EXCEPT ![p] = registry[k].driver]
            /\ pc' = [pc EXCEPT ![p] = "probe"]
            /\ UNCHANGED outcome
       ELSE /\ Exit(p, Result("NoActiveSession"))
            /\ UNCHANGED driver
    /\ UNCHANGED <<apart, observed, shared, clock, login_elapsed, login_success,
                   challenge_detected, kept, sweep_now>>

\* The call: the locked lookup, and the error when there is no session.
ResumeCall(p, k, u, w) ==
    /\ pc[p] = "idle"
    /\ op' = [op EXCEPT ![p] = "resume"]
    /\ session_id' = [session_id EXCEPT ![p] = k]
    /\ profile_url' = [profile_url EXCEPT ![p] = u]
    /\ login_wait' = [login_wait EXCEPT ![p] = w]
    /\ IF k \in DOMAIN registry THEN
            /\ driver' = [driver EXCEPT ![p] = registry[k].driver]
            /\ pc' = [pc EXCEPT ![p] = "probe"]
            /\ UNCHANGED outcome
       ELSE /\ Exit(p, Result("NoActiveSession"))
            /\ UNCHANGED driver
    /\ UNCHANGED <<apart, observed, shared, clock, login_elapsed, login_success,
                   challenge_detected, kept, sweep_now>>

\* The liveness probe: _ = driver.current_url
ResumeProbe(p) ==
    /\ pc[p] = "probe"
    /\ \E raised \in BOOLEAN :
        pc' = [pc EXCEPT ![p] = IF raised \/ browsers[driver[p]] # "alive"
                                THEN "dead" ELSE "poll"]
    /\ UNCHANGED <<apart, observed, shared, clock, locals>>

\* Mutant of ResumeDead: the entry is left in the registry.
ResumeDead_NoPop(p) ==
    /\ pc[p] = "dead"
    /\ Leave(p, Result("SessionDead"))
    /\ UNCHANGED <<apart, observed, shared, clock, op, session_id, profile_url,
                   login_wait, driver, login_elapsed, login_success,
                   challenge_detected, kept, sweep_now>>

\* The probe raised: the locked pop, then the error.
ResumeDead(p) ==
    /\ pc[p] = "dead"
    /\ registry' = Pop(registry, session_id[p])
    /\ Leave(p, Result("SessionDead"))
    /\ UNCHANGED <<apart, observed, browsers, parked, clock, op, session_id, profile_url,
                   login_wait, driver, login_elapsed, login_success,
                   challenge_detected, kept, sweep_now>>

\* Challenge still pending: keep_session = True, the locked refresh of the
\* timestamp, then the raise.
ResumeKeep(p) ==
    /\ pc[p] = "decide" /\ op[p] = "resume"
    /\ ~login_success[p] /\ challenge_detected[p]
    /\ kept' = [kept EXCEPT ![p] = TRUE]
    /\ LET k == session_id[p] IN
        registry' = IF k \in DOMAIN registry
                    THEN [registry EXCEPT ![k].created = now]
                    ELSE registry
    /\ Leave(p, Challenge(session_id[p]))
    /\ Decided(p)
    /\ UNCHANGED <<apart, observed, browsers, parked, clock, op, session_id, profile_url,
                   login_wait, driver, login_elapsed, sweep_now>>

\* Login neither succeeded nor shows a challenge.
ResumeIncomplete(p) ==
    /\ pc[p] = "decide" /\ op[p] = "resume"
    /\ ~login_success[p] /\ ~challenge_detected[p]
    /\ Leave(p, Result("LoginIncomplete"))
    /\ Decided(p)
    /\ UNCHANGED <<apart, observed, shared, clock, op, session_id, profile_url, login_wait,
                   driver, login_elapsed, kept, sweep_now>>

\* Login succeeded: the extraction pipeline starts.
ResumeProceed(p) ==
    /\ pc[p] = "decide" /\ op[p] = "resume"
    /\ login_success[p]
    /\ pc' = [pc EXCEPT ![p] = "extract"]
    /\ Decided(p)
    /\ UNCHANGED <<apart, observed, shared, clock, op, session_id, profile_url, login_wait,
                   driver, login_elapsed, kept, sweep_now, outcome>>

\* Mutant of ResumeFinally: the entry is not popped before the quit.
ResumeFinally_NoPop(p) ==
    /\ pc[p] = "finally" /\ op[p] = "resume"
    /\ pc' = [pc EXCEPT ![p] = IF kept[p] THEN "done" ELSE "quit"]
    /\ UNCHANGED <<apart, observed, shared, clock, locals>>

\* finally: if not keep_session, the locked pop; the quit follows.
ResumeFinally(p) ==
    /\ pc[p] = "finally" /\ op[p] = "resume"
    /\ IF kept[p] THEN
            /\ pc' = [pc EXCEPT ![p] = "done"]
            /\ UNCHANGED registry
       ELSE /\ registry' = Pop(registry, session_id[p])
            /\ pc' = [pc EXCEPT ![p] = "quit"]
    /\ UNCHANGED <<apart, observed, browsers, parked, clock, locals>>

\* ---------------------------------------------------------- cleanup_session
\* Mutant of CleanupCall: the whole registry is emptied.
CleanupCall_Clear(p, k) ==
    /\ pc[p] = "idle"
    /\ op' = [op EXCEPT ![p] = "cleanup"]
    /\ session_id' = [session_id EXCEPT ![p] = k]
    /\ registry' = [x \in {} |-> registry[x]]
    /\ IF k \in DOMAIN registry THEN
            /\ driver' = [driver EXCEPT ![p] = registry[k].driver]
            /\ pc' = [pc EXCEPT ![p] = "quit"]
            /\ UNCHANGED outcome
       ELSE /\ Exit(p, Result("Cleaned"))
            /\ UNCHANGED driver
    /\ UNCHANGED <<apart, observed, browsers, parked, clock, profile_url, login_wait,
                   login_elapsed, login_success, challenge_detected, kept,
                   sweep_now>>

\* The call: the locked pop.
CleanupCall(p, k) ==
    /\ pc[p] = "idle"
    /\ op' = [op EXCEPT ![p] = "cleanup"]
    /\ session_id' = [session_id EXCEPT ![p] = k]
    /\ registry' = Pop(registry, k)
    /\ IF k \in DOMAIN registry THEN
            /\ driver' = [driver EXCEPT ![p] = registry[k].driver]
            /\ pc' = [pc EXCEPT ![p] = "quit"]
            /\ UNCHANGED outcome
       ELSE /\ Exit(p, Result("Cleaned"))
            /\ UNCHANGED driver
    /\ UNCHANGED <<apart, observed, browsers, parked, clock, profile_url, login_wait,
                   login_elapsed, login_success, challenge_detected, kept,
                   sweep_now>>

\* Mutant of QuitDriver: the driver is not quit.
QuitDriver_Skip(p) ==
    /\ pc[p] = "quit"
    /\ pc' = [pc EXCEPT ![p] = "done"]
    /\ outcome' = [outcome EXCEPT ![p] =
                    IF op[p] = "cleanup" THEN Result("Cleaned") ELSE @]
    /\ UNCHANGED <<apart, observed, shared, clock, op, session_id, profile_url, login_wait,
                   driver, login_elapsed, login_success, challenge_detected,
                   kept, sweep_now>>

\* driver.quit() outside the lock, its exception swallowed: the end of
\* resume_linkedin_session's finally clause and of cleanup_session.
QuitDriver(p) ==
    /\ pc[p] = "quit"
    /\ browsers' = QuitAll(browsers, {driver[p]})
    /\ parked' = Forget(parked, {driver[p]})
    /\ pc' = [pc EXCEPT ![p] = "done"]
    /\ outcome' = [outcome EXCEPT ![p] =
                    IF op[p] = "cleanup" THEN Result("Cleaned") ELSE @]
    /\ UNCHANGED <<apart, observed, registry, clock, op, session_id, profile_url,
                   login_wait, driver, login_elapsed, login_success,
                   challenge_detected, kept, sweep_now>>

\* ------------------------------------------------------------ environment
\* The caller takes the result; the frame's locals are gone.
ReturnFrame(p) ==
    /\ pc[p] = "done"
    /\ pc' = [pc EXCEPT ![p] = "idle"]
    /\ op' = [op EXCEPT ![p] = None]
    /\ session_id' = [session_id EXCEPT ![p] = None]
    /\ profile_url' = [profile_url EXCEPT ![p] = None]
    /\ login_wait' = [login_wait EXCEPT ![p] = 0]
    /\ driver' = [driver EXCEPT ![p] = NoDriver]
    /\ login_elapsed' = [login_elapsed EXCEPT ![p] = 0]
    /\ login_success' = [login_success EXCEPT ![p] = FALSE]
    /\ challenge_detected' = [challenge_detected EXCEPT ![p] = FALSE]
    /\ kept' = [kept EXCEPT ![p] = FALSE]
    /\ sweep_now' = [sweep_now EXCEPT ![p] = 0]
    /\ outcome' = [outcome EXCEPT ![p] = NoResult]
    /\ UNCHANGED <<shared, clock>>

Return(p) == ReturnFrame(p) /\ UNCHANGED <<apart, observed>>

\* Time passes.
Tick(d) ==
    /\ ticks < MaxTicks
    /\ now' = now + d
    /\ ticks' = ticks + 1
    /\ UNCHANGED <<apart, observed, shared, pc, locals>>

\* ------------------------------------------------------------ specification
Step(p) ==
    \/ \E k \in Keys \cup {None}, w \in LoginWaits :
            ScrapeCall(p, k, UrlOf[p], w)
    \/ ScrapeSweep(p)
    \/ ScrapeLaunch(p)
    \/ ScrapeLogin(p)
    \/ PollCheck(p)
    \/ PollFinal(p)
    \/ ScrapePark(p)
    \/ ScrapeNoSession(p)
    \/ ScrapeProceed(p)
    \/ Extract(p)
    \/ ScrapeFinally(p)
    \/ \E k \in Keys, w \in LoginWaits : ResumeCall(p, k, UrlOf[p], w)
    \/ ResumeProbe(p)
    \/ ResumeDead(p)
    \/ ResumeKeep(p)
    \/ ResumeIncomplete(p)
    \/ ResumeProceed(p)
    \/ ResumeFinally(p)
    \/ \E k \in Keys : CleanupCall(p, k)
    \/ QuitDriver(p)
    \/ Return(p)

Next ==
    \/ \E p \in Procs : Step(p)
    \/ \E d \in TickSteps : Tick(d)

Spec == Init /\ [][Next]_vars

\* The same callers, one call at a time: a call starts or goes on only while
\* every other caller is between calls.
SeqNext ==
    \/ \E p \in Procs :
        /\ \A q \in Procs \ {p} : pc[q] \in {"idle", "done"}
        /\ Step(p)
    \/ \E d \in TickSteps : Tick(d)

SpecSeq == Init /\ [][SeqNext]_vars

\* ------------------------------------------------- one caller, observed
\* One caller's calls, one after the other, with what the driver showed
\* kept for inspection: the page of the latest poll check, and the text and
\* the verdict of the latest validation.  The poll budgets include none at
\* all, one that is not a multiple of the poll interval and two iterations'
\* worth; a resume call may ask for another profile than the one the session
\* was parked for.
Observed == "t1"
ObsWaits == {0, MaxLoginWait, MaxLoginWait + 1,
             MaxLoginWait + _LOGIN_POLL_INTERVAL}

PollCheckObs(p) ==
    \/ PollCheckRaises(p) /\ UNCHANGED <<apart, observed>>
    \/ \E page \in Pages :
            /\ PollCheckOn(p, page)
            /\ sampled' = [sampled EXCEPT ![p] = page]
            /\ UNCHANGED <<apart, combined>>

PollFinalObs(p) ==
    \/ PollFinalRaises(p) /\ UNCHANGED <<apart, observed>>
    \/ \E page \in Pages :
            /\ PollFinalOn(p, page)
            /\ sampled' = [sampled EXCEPT ![p] = page]
            /\ UNCHANGED <<apart, combined>>

ExtractObs(p) ==
    \/ ExtractRaises(p) /\ UNCHANGED <<apart, observed>>
    \/ \E text \in Texts, notFound \in BOOLEAN :
            /\ ExtractOn(p, text, notFound)
            /\ combined' = [combined EXCEPT ![p] =
                    [text |-> text, notFound |-> notFound,
                     verdict |-> ContentGate(text, notFound),
                     url |-> profile_url[p]]]
            /\ UNCHANGED <<apart, sampled>>

ReturnObs(p) ==
    /\ ReturnFrame(p)
    /\ sampled' = [sampled EXCEPT ![p] = NoPage]
    /\ combined' = [combined EXCEPT ![p] = NoText]
    /\ UNCHANGED apart

ObsNext ==
    \/ \E k \in Keys \cup {None}, w \in ObsWaits :
            ScrapeCall(Observed, k, UrlOf[Observed], w)
    \/ ScrapeSweep(Observed)
    \/ ScrapeLaunch(Observed)
    \/ ScrapeLogin(Observed)
    \/ PollCheckObs(Observed)
    \/ PollFinalObs(Observed)
    \/ ScrapePark(Observed)
    \/ ScrapeNoSession(Observed)
    \/ ScrapeProceed(Observed)
    \/ ExtractObs(Observed)
    \/ ScrapeFinally(Observed)
    \/ \E k \in Keys, u \in Urls, w \in ObsWaits :
            ResumeCall(Observed, k, u, w)
    \/ ResumeProbe(Observed)
    \/ ResumeDead(Observed)
    \/ ResumeKeep(Observed)
    \/ ResumeIncomplete(Observed)
    \/ ResumeProceed(Observed)
    \/ ResumeFinally(Observed)
    \/ \E k \in Keys : CleanupCall(Observed, k)
    \/ QuitDriver(Observed)
    \/ ReturnObs(Observed)

SpecObs == Init /\ [][ObsNext]_vars

\* ------------------------------------------------------- the time budget
\* start_time = time.time(), at the top of scrape_linkedin_profile and of
\* resume_linkedin_session.
BudgetStart ==
    /\ budget' = [NoBudget EXCEPT !.start_time = now]
    /\ budget' # budget
    /\ UNCHANGED <<observed, shared, clock, pc, locals, sync, parts, scroll, pipe,
                   lock>>

\* One `if _check_budget(start_time):` of the extraction pipeline.
BudgetCheck ==
    /\ budget.checks < MaxChecks
    /\ LET ok == CheckBudget(budget.start_time, now) IN
        budget' = [budget EXCEPT !.checks = @ + 1, !.at = now, !.ok = ok,
                                 !.lapsed = @ \/ ~ok]
    /\ UNCHANGED <<observed, shared, clock, pc, locals, sync, parts, scroll, pipe,
                   lock>>

\* The clock advances so that a budget is seen one second short of its
\* limit, at the limit and one second past it.
BudgetSteps == {1, 89, 90}

BudgetNext ==
    \/ BudgetStart
    \/ BudgetCheck
    \/ \E d \in BudgetSteps : Tick(d)

SpecBudget == Init /\ [][BudgetNext]_vars

\* The same calls with a thread that keeps running while it polls: an
\* iteration of the loop or the final check that can be taken is taken.
PollStep(p) == PollCheckObs(p) \/ PollFinalObs(p)

SpecPoll == Init /\ [][ObsNext]_vars /\ WF_vars(PollStep(Observed))

\* ------------------------------------------------ combining the texts
\* Steps 5 and 6 of _scrape_profile_content leave the section text and the
\* detail pages' text (empty when the time budget did not allow the visit);
\* the page has a raw text for the script of step 7 to read.
ExtractParts ==
    /\ parts.step = "extract"
    /\ \E section \in PartTexts, detail \in PartTexts, raw \in PartTexts :
        parts' = [NoParts EXCEPT !.section = section, !.detail = detail,
                                 !.raw = raw, !.step = "combine"]
    /\ UNCHANGED <<observed, shared, clock, pc, locals, budget, sync, scroll, pipe,
                   lock>>

\* Step 7.
CombineParts ==
    /\ parts.step = "combine"
    /\ LET c == Combine(parts.section, parts.detail, parts.raw) IN
        parts' = [parts EXCEPT !.pieces = c.pieces, !.len = c.len,
                               !.step = "validate"]
    /\ UNCHANGED <<observed, shared, clock, pc, locals, budget, sync, scroll, pipe,
                   lock>>

CombineNext == ExtractParts \/ CombineParts

SpecCombine == Init /\ [][CombineNext]_vars

\* ---------------------------------------------------- _progressive_scroll
\* The pages scrolled: a page starts ScrollHeights high and grows by one of
\* ScrollGrowths at each of the first k scroll increments made on it (lazy
\* loading), k up to max_scrolls and beyond.
ScrollHeights == {500, 800, 2000}
ScrollGrowths == {300, 1000}
ScrollLimits == {MaxScrolls - 1, MaxScrolls}

ScrollOnly ==
    UNCHANGED <<observed, shared, clock, pc, locals, budget, sync, parts, pipe,
                lock>>

\* window.scrollTo(0, y) on a page of the given height.
ScrollTo(y, height) == IF y > height THEN height ELSE y

\* The call, up to the loop: last_height is read from the page.
ScrollCall ==
    /\ scroll.pc = "idle"
    /\ \E h \in ScrollHeights, g \in ScrollGrowths, k \in 0..(MaxScrolls + 1),
          m \in ScrollLimits :
        scroll' = [NoScroll EXCEPT !.pc = IF m > 0 THEN "loop" ELSE "top",
                                   !.height = h, !.growth = g, !.grows = k,
                                   !.k = k, !.max_scrolls = m,
                                   !.last_height = h]
    /\ ScrollOnly

\* Mutant of ScrollIncrement: the iterations are not counted.
ScrollIncrement_Uncounted ==
    /\ scroll.pc = "loop"
    /\ LET pos == scroll.scroll_position + ScrollStep
           new_height == IF scroll.grows > 0
                         THEN scroll.height + scroll.growth ELSE scroll.height
           stop == pos >= new_height /\ new_height = scroll.last_height
       IN scroll' = [scroll EXCEPT
                !.scroll_position = pos,
                !.position = ScrollTo(pos, scroll.height),
                !.scrolls = @ + 1,
                !.last = "increment",
                !.height = new_height,
                !.grows = IF @ > 0 THEN @ - 1 ELSE 0,
                !.last_height = IF stop THEN @ ELSE new_height,
                !.pc = IF stop THEN "top" ELSE "loop"]
    /\ ScrollOnly

\* One iteration of the loop: scroll 800 further down, let the page load,
\* read its height, and leave the loop when the bottom is reached and the
\* height has not changed.
ScrollIncrement ==
    /\ scroll.pc = "loop"
    /\ LET pos == scroll.scroll_position + ScrollStep
           new_height == IF scroll.grows > 0
                         THEN scroll.height + scroll.growth ELSE scroll.height
           stop == pos >= new_height /\ new_height = scroll.last_height
       IN scroll' = [scroll EXCEPT
                !.scroll_position = pos,
                !.position = ScrollTo(pos, scroll.height),
                !.scrolls = @ + 1,
                !.last = "increment",
                !.height = new_height,
                !.grows = IF @ > 0 THEN @ - 1 ELSE 0,
                !.last_height = IF stop THEN @ ELSE new_height,
                !.i = @ + 1,
                !.pc = IF stop \/ scroll.i + 1 >= scroll.max_scrolls
                       THEN "top" ELSE "loop"]
    /\ ScrollOnly

\* After the loop: window.scrollTo(0, 0).
ScrollTop ==
    /\ scroll.pc = "top"
    /\ scroll' = [scroll EXCEPT !.position = ScrollTo(0, scroll.height),
                                !.last = "top", !.pc = "done"]
    /\ ScrollOnly

\* A driver operation of the loop or the scroll to the top raises: the
\* function has no handler.
ScrollRaises ==
    /\ scroll.pc \in {"loop", "top"}
    /\ scroll' = [scroll EXCEPT !.raised = TRUE, !.pc = "done"]
    /\ ScrollOnly

\* The function has returned or raised.
ScrollReturn ==
    /\ scroll.pc = "done"
    /\ scroll' = NoScroll
    /\ ScrollOnly

ScrollSteps == ScrollIncrement \/ ScrollTop \/ ScrollRaises

ScrollNext ==
    \/ ScrollCall
    \/ ScrollIncrement
    \/ ScrollTop
    \/ ScrollRaises
    \/ ScrollReturn

\* The thread that scrolls keeps running.
SpecScroll == Init /\ [][ScrollNext]_vars /\ WF_vars(ScrollSteps)

\* ------------------------------------------- the extraction pipeline's gates
\* scrape_linkedin_profile or resume_linkedin_session from start_time on:
\* the login poll, then _scrape_profile_content with its budget-gated steps,
\* on a page with up to MaxItems show-all buttons and detail links.  Time
\* passes between the steps.
PipeTicks == {45, 60}

PipeOnly ==
    UNCHANGED <<observed, shared, clock, pc, locals, budget, sync, parts,
                scroll, lock>>

\* `if _check_budget(start_time):` in front of a step: the step is started,
\* or declined.
Open(q) == CheckBudget(q.start_time, now)

Gate(q, step) ==
    IF Open(q)
    THEN [q EXCEPT !.started = [step |-> step, at |-> now]]
    ELSE [q EXCEPT !.declined = [step |-> step, at |-> now]]

\* A click or a visit inside its own try/except: a failure is swallowed.
Swallow(q, failed) == IF failed THEN [q EXCEPT !.failures = @ + 1] ELSE q

\* start_time = time.time(), at the top of the call.
PipeCall ==
    /\ pipe.pc = "idle"
    /\ \E nb \in 0..MaxItems, nl \in 0..MaxItems :
        pipe' = [NoPipe EXCEPT !.pc = "login", !.start_time = now,
                               !.buttons = nb, !.links = nl]
    /\ PipeOnly

\* The login poll (scrape) or the resumed challenge poll (resume) is over.
PipeLogin ==
    /\ pipe.pc = "login"
    /\ pipe' = [pipe EXCEPT !.pc = "open", !.login_end = now]
    /\ PipeOnly

\* Steps 1 to 3: driver.get(profile_url), _dismiss_modals, whose clicks are
\* each in a try/except, and _progressive_scroll; get and the scroll have no
\* handler.
PipeOpen ==
    /\ pipe.pc = "open"
    /\ \E raises \in BOOLEAN, failed \in BOOLEAN :
        pipe' = IF raises
                THEN [pipe EXCEPT !.pc = "done", !.raised = TRUE]
                ELSE [Swallow(pipe, failed) EXCEPT !.pc = "seemore"]
    /\ PipeOnly

\* Step 4: the see-more expansion on the main page, behind the gate; each
\* click is in a try/except.
PipeSeeMore ==
    /\ pipe.pc = "seemore"
    /\ \E failed \in BOOLEAN :
        LET q == Gate(pipe, "seemore") IN
        pipe' = [Swallow(q, failed /\ Open(q))
                    EXCEPT !.pc = "details"]
    /\ PipeOnly

\* Steps 5 and 6: the section text, then the detail-page traversal as a
\* whole behind the gate; without budget detail_text stays "".
PipeDetails ==
    /\ pipe.pc = "details"
    /\ LET q == Gate(pipe, "details") IN
        pipe' = [q EXCEPT !.pc = IF Open(q)
                                 THEN "buttons" ELSE "validate"]
    /\ PipeOnly

\* The loop over the show-all buttons: each click behind the gate and in a
\* try/except; the loop goes through every button.
PipeButton ==
    /\ pipe.pc = "buttons"
    /\ IF pipe.b < pipe.buttons THEN
            \E failed \in BOOLEAN :
                LET q == Gate(pipe, "button") IN
                pipe' = [Swallow(q, failed /\ Open(q))
                            EXCEPT !.b = @ + 1]
       ELSE pipe' = [pipe EXCEPT !.pc = "visits"]
    /\ PipeOnly

\* Mutant of PipeVisit: a detail page is visited without a budget check.
PipeVisit_Ungated ==
    /\ pipe.pc = "visits"
    /\ IF Len(pipe.visits) < pipe.links THEN
            \E result \in {"text", "short", "failed"} :
                LET q == [pipe EXCEPT !.started =
                                        [step |-> "visit", at |-> now]] IN
                pipe' = [Swallow(q, result = "failed")
                            EXCEPT !.visits = Append(@, result)]
       ELSE pipe' = [pipe EXCEPT !.pc = "back"]
    /\ PipeOnly

\* Mutant of PipeVisit: a detail page that fails ends the pipeline with the
\* exception.
PipeVisit_Aborts ==
    /\ pipe.pc = "visits"
    /\ IF Len(pipe.visits) < pipe.links THEN
            \E result \in {"text", "short", "failed"} :
                LET q == Gate(pipe, "visit") IN
                pipe' = IF ~Open(q)
                        THEN [q EXCEPT !.pc = "back"]
                        ELSE IF result = "failed"
                        THEN [q EXCEPT !.pc = "done", !.raised = TRUE,
                                       !.failures = @ + 1]
                        ELSE [q EXCEPT !.visits = Append(@, result)]
       ELSE pipe' = [pipe EXCEPT !.pc = "back"]
    /\ PipeOnly

\* The loop over the detail links: without budget the loop breaks; with it
\* the page is visited inside a try/except, and its text is kept when it has
\* more than 20 characters.
PipeVisit ==
    /\ pipe.pc = "visits"
    /\ IF Len(pipe.visits) < pipe.links THEN
            \E result \in {"text", "short", "failed"} :
                LET q == Gate(pipe, "visit") IN
                pipe' = IF ~Open(q)
                        THEN [q EXCEPT !.pc = "back"]
                        ELSE [Swallow(q, result = "failed")
                                EXCEPT !.visits = Append(@, result)]
       ELSE pipe' = [pipe EXCEPT !.pc = "back"]
    /\ PipeOnly

\* Back to the profile when there were detail links; a failure is swallowed.
PipeBack ==
    /\ pipe.pc = "back"
    /\ \E failed \in BOOLEAN :
        pipe' = [Swallow(pipe, failed /\ pipe.links > 0)
                    EXCEPT !.pc = "validate"]
    /\ PipeOnly

\* The detail texts gathered.
DetailTexts(q) == {j \in DOMAIN q.visits : q.visits[j] = "text"}

\* Steps 7 and 8: the texts are combined and validated.
PipeValidate ==
    /\ pipe.pc = "validate"
    /\ pipe' = [pipe EXCEPT !.pc = "done",
                            !.validated = Cardinality(DetailTexts(pipe))]
    /\ PipeOnly

\* The call is over.
PipeReturn ==
    /\ pipe.pc = "done"
    /\ pipe' = NoPipe
    /\ PipeOnly

PipeNext ==
    \/ PipeCall
    \/ PipeLogin
    \/ PipeOpen
    \/ PipeSeeMore
    \/ PipeDetails
    \/ PipeButton
    \/ PipeVisit
    \/ PipeBack
    \/ PipeValidate
    \/ PipeReturn
    \/ \E d \in PipeTicks : Tick(d)

SpecPipe == Init /\ [][PipeNext]_vars

\* ------------------------------------------- the registry's housekeeping
\* _cleanup_stale_sessions and cleanup_session on a registry that holds
\* several sessions: parked under the keys of RegKeys, of the ages of RegAges
\* at time RegNow, each with a browser of its own that is alive or has died
\* (its quit then raises, and the exception is swallowed).
RegKeys == {"u1", "u2"}
RegAges == {10, 120, 121}
RegNow == 200
RegDriver == [k \in RegKeys |-> IF k = "u1" THEN 1 ELSE 2]

RegInit ==
    /\ \E K \in SUBSET RegKeys :
        /\ \E age \in [K -> RegAges] :
                registry = [k \in K |->
                    NewSession(RegDriver[k], "urlA", RegNow - age[k])]
        /\ \E dead \in SUBSET K :
                browsers = [b \in Browsers |->
                    IF \E k \in K : RegDriver[k] = b /\ k \in dead THEN "quit"
                    ELSE IF \E k \in K : RegDriver[k] = b THEN "alive"
                    ELSE "none"]
        /\ parked = [b \in Browsers |->
                IF \E k \in K : RegDriver[k] = b
                THEN CHOOSE k \in K : RegDriver[k] = b ELSE None]
    /\ now = RegNow
    /\ ticks = 0
    /\ pc = [p \in Procs |-> "idle"]
    /\ op = [p \in Procs |-> None]
    /\ session_id = [p \in Procs |-> None]
    /\ profile_url = [p \in Procs |-> None]
    /\ login_wait = [p \in Procs |-> 0]
    /\ driver = [p \in Procs |-> NoDriver]
    /\ login_elapsed = [p \in Procs |-> 0]
    /\ login_success = [p \in Procs |-> FALSE]
    /\ challenge_detected = [p \in Procs |-> FALSE]
    /\ kept = [p \in Procs |-> FALSE]
    /\ sweep_now = [p \in Procs |-> 0]
    /\ outcome = [p \in Procs |-> NoResult]
    /\ sampled = [p \in Procs |-> NoPage]
    /\ combined = [p \in Procs |-> NoText]
    /\ budget = NoBudget
    /\ sync = NoSync
    /\ parts = NoParts
    /\ scroll = NoScroll
    /\ pipe = NoPipe
    /\ lock = NoLock

RegNext ==
    \/ \E p \in Procs, k \in RegKeys \cup {None}, w \in LoginWaits :
            ScrapeCall(p, k, UrlOf[p], w)
    \/ \E p \in Procs : ScrapeSweep(p)
    \/ \E p \in Procs, k \in RegKeys : CleanupCall(p, k)
    \/ \E p \in Procs : QuitDriver(p)
    \/ \E p \in Procs : Return(p)
    \/ \E d \in TickSteps : Tick(d)

SpecRegistry == RegInit /\ [][RegNext]_vars

\* ------------------------------------------- scrape calls that keep coming
\* One caller's scrape calls, one after the other for ever, on a registry
\* that holds sessions parked earlier and abandoned since.  The caller's
\* thread always gets to take its next step, and a new call follows each
\* call that has returned; nothing makes the clock advance.
ScrapeStep(p) ==
    \/ \E k \in RegKeys \cup {None}, w \in LoginWaits :
            ScrapeCall(p, k, UrlOf[p], w)
    \/ ScrapeSweep(p)
    \/ ScrapeLaunch(p)
    \/ ScrapeLogin(p)
    \/ PollCheck(p)
    \/ PollFinal(p)
    \/ ScrapePark(p)
    \/ ScrapeNoSession(p)
    \/ ScrapeProceed(p)
    \/ Extract(p)
    \/ ScrapeFinally(p)
    \/ Return(p)

ScrapeNext ==
    \/ ScrapeStep(Observed)
    \/ \E d \in TickSteps : Tick(d)

SpecScrape ==
    RegInit /\ [][ScrapeNext]_vars /\ WF_vars(ScrapeStep(Observed))

\* ------------------------------------------------ background_sync_linkedin
\* The background task of routes/v1/linkedin.py, run after run.  The
\* pipeline (generate_resume_from_linkedin) returns a resume, returns without
\* one, or raises; store_resume and log_activity write to the database and
\* may raise.
SyncOnly ==
    UNCHANGED <<observed, shared, clock, pc, locals, budget, parts, scroll,
                pipe, lock>>

\* safe_log_activity(..., decision): a failure of log_activity is swallowed.
SafeLogActivity(activity, decision, failed) ==
    IF failed THEN activity ELSE Append(activity, decision)

\* The call, up to the test of the resolved credentials.
BackgroundSyncCall ==
    /\ sync.pc = "idle" /\ sync.runs < MaxRuns
    /\ \E creds \in BOOLEAN :
        sync' = [sync EXCEPT !.pc = IF creds THEN "pipeline" ELSE "log_missing",
                             !.runs = @ + 1, !.creds = creds,
                             !.pipeline = None, !.invoked = 0,
                             !.raised = FALSE,
                             !.activity0 = Len(sync.activity),
                             !.resumes0 = Len(sync.resumes)]
    /\ SyncOnly

\* Credentials missing: the MISSING_CREDS entry.
SyncLogMissing ==
    /\ sync.pc = "log_missing"
    /\ \E failed \in BOOLEAN :
        sync' = [sync EXCEPT !.pc = "store_error",
                    !.activity = SafeLogActivity(@, "MISSING_CREDS", failed)]
    /\ SyncOnly

\* Credentials missing: store_resume of the error record, outside any try
\* block, then return.
SyncStoreError ==
    /\ sync.pc = "store_error"
    /\ \E raises \in BOOLEAN :
        sync' = IF raises
                THEN [sync EXCEPT !.pc = "done", !.raised = TRUE]
                ELSE [sync EXCEPT !.pc = "done",
                                  !.resumes = Append(@, "error")]
    /\ SyncOnly

\* Inside the try block: the pipeline is called.
SyncPipeline ==
    /\ sync.pc = "pipeline"
    /\ \E result \in {"resume", "none", "raised"} :
        sync' = [sync EXCEPT !.invoked = @ + 1, !.pipeline = result,
                    !.pc = CASE result = "resume" -> "store"
                             [] result = "none" -> "log_nodata"
                             [] OTHER -> "log_error"]
    /\ SyncOnly

\* The pipeline returned a resume: json.dumps and store_resume, inside the
\* try block.
SyncStore ==
    /\ sync.pc = "store"
    /\ \E raises \in BOOLEAN :
        sync' = IF raises
                THEN [sync EXCEPT !.pc = "log_error"]
                ELSE [sync EXCEPT !.pc = "log_synced",
                                  !.resumes = Append(@, "resume")]
    /\ SyncOnly

\* The entry that ends the run: SYNCED, NO_DATA, or ERROR from the except
\* clause.
SyncLog(at, decision) ==
    /\ sync.pc = at
    /\ \E failed \in BOOLEAN :
        sync' = [sync EXCEPT !.pc = "done",
                    !.activity = SafeLogActivity(@, decision, failed)]
    /\ SyncOnly

SyncLogSynced == SyncLog("log_synced", "SYNCED")
SyncLogNoData == SyncLog("log_nodata", "NO_DATA")
SyncLogError == SyncLog("log_error", "ERROR")

\* The task has ended.
SyncReturn ==
    /\ sync.pc = "done"
    /\ sync' = [sync EXCEPT !.pc = "idle"]
    /\ SyncOnly

SyncNext ==
    \/ BackgroundSyncCall
    \/ SyncLogMissing
    \/ SyncStoreError
    \/ SyncPipeline
    \/ SyncStore
    \/ SyncLogSynced
    \/ SyncLogNoData
    \/ SyncLogError
    \/ SyncReturn

SpecSync == Init /\ [][SyncNext]_vars

\* ---------------------------------------------------------- _sessions_lock
\* The locked blocks of the session manager one statement at a time, two
\* threads interleaving freely, on a registry that holds sessions parked
\* earlier.  "with _sessions_lock" is an acquire that waits until no thread
\* holds the lock and a release at the end of the block; the statements
\* themselves test nothing.
LockOnly ==
    UNCHANGED <<clock, pc, locals, observed, budget, sync, parts, scroll,
                pipe>>

At(p) == lock.frame[p].at

\* Thread p goes on with frame f; its statement touched the map or not and
\* called quit() or not.
Goes(p, f, touched, quit) ==
    lock' = [lock EXCEPT !.frame[p] = f,
                         !.touched = IF touched THEN p ELSE None,
                         !.quit = IF quit THEN p ELSE None]

\* driver.quit() on browser b, its exception swallowed.
Quits(b, mark) ==
    /\ browsers' = QuitAll(browsers, {b})
    /\ parked' = [parked EXCEPT ![b] = mark]

\* The first statement of each locked block and the statement that follows
\* each block.
Entered(at) ==
    CASE at = "sweep_lock" -> "sweep_scan"
      [] at = "cleanup_lock" -> "cleanup_pop"
      [] at = "park_lock" -> "park_pop"
      [] at = "resume_lock" -> "resume_get"
      [] at = "dead_lock" -> "dead_pop"
      [] at = "keep_lock" -> "keep_refresh"
      [] at = "finally_lock" -> "finally_pop"

Left(at) ==
    CASE at = "sweep_unlock" -> "done"
      [] at = "cleanup_unlock" -> "cleanup_quit"
      [] at = "park_unlock" -> "done"
      [] at = "resume_unlock" -> "resume_found"
      [] at = "dead_unlock" -> "finally_lock"
      [] at = "keep_unlock" -> "done"
      [] at = "finally_unlock" -> "finally_quit"

LockPoints == {"sweep_lock", "cleanup_lock", "park_lock", "resume_lock",
               "dead_lock", "keep_lock", "finally_lock"}
UnlockPoints == {"sweep_unlock", "cleanup_unlock", "park_unlock",
                 "resume_unlock", "dead_unlock", "keep_unlock",
                 "finally_unlock"}
InBlock == {"sweep_scan", "sweep_quit", "sweep_del", "cleanup_pop",
            "park_pop", "park_evict", "park_put", "resume_get", "dead_pop",
            "keep_refresh", "finally_pop"} \cup UnlockPoints

\* Mutant of LockAcquire: the block is entered without waiting for the lock.
LockAcquire_NoWait(p) ==
    /\ At(p) \in LockPoints
    /\ lock' = [lock EXCEPT !.holder = p, !.frame[p].at = Entered(@),
                            !.touched = None, !.quit = None]
    /\ UNCHANGED shared
    /\ LockOnly

\* with _sessions_lock: __enter__.
LockAcquire(p) ==
    /\ At(p) \in LockPoints
    /\ lock.holder = None
    /\ lock' = [lock EXCEPT !.holder = p, !.frame[p].at = Entered(@),
                            !.touched = None, !.quit = None]
    /\ UNCHANGED shared
    /\ LockOnly

\* with _sessions_lock: __exit__.
LockRelease(p) ==
    /\ At(p) \in UnlockPoints
    /\ lock' = [lock EXCEPT !.holder = None, !.frame[p].at = Left(@),
                            !.touched = None, !.quit = None]
    /\ UNCHANGED shared
    /\ LockOnly

\* _cleanup_stale_sessions is called: now = time.time(), stale_ids = [].
SweepEnter(p) ==
    /\ At(p) = "idle"
    /\ Goes(p, [NoFrame EXCEPT !.at = "sweep_lock", !.now = now],
            FALSE, FALSE)
    /\ UNCHANGED shared
    /\ LockOnly

\* The first loop: the ids of the sessions older than the TTL.
SweepScan(p) ==
    /\ At(p) = "sweep_scan"
    /\ LET stale == StaleIds(registry, lock.frame[p].now) IN
        Goes(p, [lock.frame[p] EXCEPT
                    !.stale_ids = stale,
                    !.at = IF stale = {} THEN "sweep_unlock"
                           ELSE "sweep_quit"], TRUE, FALSE)
    /\ UNCHANGED shared
    /\ LockOnly

\* The second loop, its try: _active_sessions[sid]["driver"].quit(), a
\* KeyError swallowed like any other exception.
SweepQuit(p) ==
    /\ At(p) = "sweep_quit"
    /\ \E sid \in lock.frame[p].stale_ids :
        /\ IF sid \in DOMAIN registry
           THEN Quits(registry[sid].driver, None)
           ELSE UNCHANGED <<browsers, parked>>
        /\ Goes(p, [lock.frame[p] EXCEPT !.sid = sid, !.at = "sweep_del"],
                TRUE, sid \in DOMAIN registry)
    /\ UNCHANGED registry
    /\ LockOnly

\* The second loop: del _active_sessions[sid]; its KeyError leaves the block.
SweepDel(p) ==
    /\ At(p) = "sweep_del"
    /\ LET f == lock.frame[p]
           rest == f.stale_ids \ {f.sid} IN
        /\ registry' = Pop(registry, f.sid)
        /\ Goes(p, [f EXCEPT
                    !.stale_ids = rest,
                    !.at = IF rest = {} \/ f.sid \notin DOMAIN registry
                           THEN "sweep_unlock" ELSE "sweep_quit"],
                TRUE, FALSE)
    /\ UNCHANGED <<browsers, parked>>
    /\ LockOnly

\* cleanup_session(session_id) is called.
CleanupEnter(p, k) ==
    /\ At(p) = "idle"
    /\ Goes(p, [NoFrame EXCEPT !.at = "cleanup_lock", !.session_id = k],
            FALSE, FALSE)
    /\ UNCHANGED shared
    /\ LockOnly

\* x = _active_sessions.pop(session_id, None) and the statement after it.
Pops(p, next) ==
    /\ LET k == lock.frame[p].session_id IN
        /\ registry' = Pop(registry, k)
        /\ Goes(p, [lock.frame[p] EXCEPT
                    !.found = k \in DOMAIN registry,
                    !.data = IF k \in DOMAIN registry THEN registry[k]
                             ELSE NoEntry,
                    !.at = next], TRUE, FALSE)
    /\ UNCHANGED <<browsers, parked>>
    /\ LockOnly

\* data = _active_sessions.pop(session_id, None)
CleanupPop(p) == At(p) = "cleanup_pop" /\ Pops(p, "cleanup_unlock")

\* if data: data["driver"].quit()
CleanupQuit(p) ==
    /\ At(p) = "cleanup_quit"
    /\ LET f == lock.frame[p] IN
        /\ IF f.found THEN Quits(f.data.driver, None)
           ELSE UNCHANGED <<browsers, parked>>
        /\ Goes(p, [f EXCEPT !.at = "done"], FALSE, f.found)
    /\ UNCHANGED registry
    /\ LockOnly

\* scrape_linkedin_profile reaches its park with a browser of its own.
ParkEnter(p, k, b) ==
    /\ At(p) = "idle"
    /\ browsers[b] = "none"
    /\ browsers' = [browsers EXCEPT ![b] = "alive"]
    /\ Goes(p, [NoFrame EXCEPT !.at = "park_lock", !.session_id = k,
                               !.driver = b], FALSE, FALSE)
    /\ UNCHANGED <<registry, parked>>
    /\ LockOnly

\* old = _active_sessions.pop(session_id, None)
ParkPop(p) == At(p) = "park_pop" /\ Pops(p, "park_evict")

\* if old: old["driver"].quit()
ParkEvict(p) ==
    /\ At(p) = "park_evict"
    /\ LET f == lock.frame[p] IN
        /\ IF f.found THEN Quits(f.data.driver, Evicted)
           ELSE UNCHANGED <<browsers, parked>>
        /\ Goes(p, [f EXCEPT !.at = "park_put"], FALSE, f.found)
    /\ UNCHANGED registry
    /\ LockOnly

\* _active_sessions[session_id] = {...}
ParkPut(p) ==
    /\ At(p) = "park_put"
    /\ LET f == lock.frame[p] IN
        /\ registry' = Put(registry, f.session_id,
                           NewSession(f.driver, "urlA", now))
        /\ parked' = [parked EXCEPT ![f.driver] = f.session_id]
        /\ Goes(p, [f EXCEPT !.at = "park_unlock"], TRUE, FALSE)
    /\ UNCHANGED browsers
    /\ LockOnly

\* resume_linkedin_session(session_id, ...) is called.
ResumeEnter(p, k) ==
    /\ At(p) = "idle"
    /\ Goes(p, [NoFrame EXCEPT !.at = "resume_lock", !.session_id = k],
            FALSE, FALSE)
    /\ UNCHANGED shared
    /\ LockOnly

\* session_data = _active_sessions.get(session_id)
ResumeGet(p) ==
    /\ At(p) = "resume_get"
    /\ LET k == lock.frame[p].session_id IN
        Goes(p, [lock.frame[p] EXCEPT
                    !.found = k \in DOMAIN registry,
                    !.data = IF k \in DOMAIN registry THEN registry[k]
                             ELSE NoEntry,
                    !.at = "resume_unlock"], TRUE, FALSE)
    /\ UNCHANGED shared
    /\ LockOnly

\* if not session_data: raise; driver = session_data["driver"]
ResumeFound(p) ==
    /\ At(p) = "resume_found"
    /\ LET f == lock.frame[p] IN
        Goes(p, IF f.found
                THEN [f EXCEPT !.driver = f.data.driver, !.at = "resume_try"]
                ELSE [f EXCEPT !.at = "done"], FALSE, FALSE)
    /\ UNCHANGED shared
    /\ LockOnly

\* The try block up to its next locked block: the probe of a dead driver,
\* the poll that ends on a challenge, or any other end.
ResumeTry(p) ==
    /\ At(p) = "resume_try"
    /\ \E next \in IF browsers[lock.frame[p].driver] = "alive"
                   THEN {"keep_lock", "finally_lock"} ELSE {"dead_lock"} :
            Goes(p, [lock.frame[p] EXCEPT !.at = next], FALSE, FALSE)
    /\ UNCHANGED shared
    /\ LockOnly

\* _active_sessions.pop(session_id, None) after the probe failed.
DeadPop(p) == At(p) = "dead_pop" /\ Pops(p, "dead_unlock")

\* if session_id in _active_sessions: ...["created"] = time.time()
KeepRefresh(p) ==
    /\ At(p) = "keep_refresh"
    /\ LET k == lock.frame[p].session_id IN
        registry' = IF k \in DOMAIN registry
                    THEN [registry EXCEPT ![k].created = now] ELSE registry
    /\ Goes(p, [lock.frame[p] EXCEPT !.at = "keep_unlock"], TRUE, FALSE)
    /\ UNCHANGED <<browsers, parked>>
    /\ LockOnly

\* finally: _active_sessions.pop(session_id, None)
FinallyPop(p) == At(p) = "finally_pop" /\ Pops(p, "finally_unlock")

\* finally: driver.quit()
FinallyQuit(p) ==
    /\ At(p) = "finally_quit"
    /\ Quits(lock.frame[p].driver, None)
    /\ Goes(p, [lock.frame[p] EXCEPT !.at = "done"], FALSE, TRUE)
    /\ UNCHANGED registry
    /\ LockOnly

\* The call has ended.
LockReturn(p) ==
    /\ At(p) = "done"
    /\ Goes(p, NoFrame, FALSE, FALSE)
    /\ UNCHANGED shared
    /\ LockOnly

LockNext ==
    \E p \in Procs :
        \/ LockAcquire(p)
        \/ LockRelease(p)
        \/ SweepEnter(p)
        \/ SweepScan(p)
        \/ SweepQuit(p)
        \/ SweepDel(p)
        \/ \E k \in RegKeys : CleanupEnter(p, k)
        \/ CleanupPop(p)
        \/ CleanupQuit(p)
        \/ \E k \in RegKeys, b \in Browsers : ParkEnter(p, k, b)
        \/ ParkPop(p)
        \/ ParkEvict(p)
        \/ ParkPut(p)
        \/ \E k \in RegKeys : ResumeEnter(p, k)
        \/ ResumeGet(p)
        \/ ResumeFound(p)
        \/ ResumeTry(p)
        \/ DeadPop(p)
        \/ KeepRefresh(p)
        \/ FinallyPop(p)
        \/ FinallyQuit(p)
        \/ LockReturn(p)

SpecLock == RegInit /\ [][LockNext]_vars

\* ------------------------------------------------------------------ claims
\* No call is in flight.
Quiescent == \A p \in Procs : pc[p] \in {"idle", "done"}

\* Caller p is inside resume_linkedin_session with the driver it looked up,
\* between the lookup and the end of the extraction pipeline.
Resuming(p) ==
    op[p] = "resume" /\ pc[p] \in {"probe", "poll", "decide", "extract"}

\* Caller p's resume has passed the liveness probe and is polling or
\* extracting.
Polling(p) == op[p] = "resume" /\ pc[p] \in {"poll", "decide", "extract"}

\* C1: whenever no call is in flight, every browser that was launched and has
\* not been quit is the driver of an entry of the session registry.
C1_NoBrowserLeaked ==
    Quiescent =>
        \A b \in Browsers : browsers[b] = "alive" => b \in Drivers(registry)

\* C2: no two in-flight calls hold and drive the same parked browser.
C2_ExclusiveHandle ==
    \A p, q \in Procs :
        (p # q /\ Resuming(p) /\ Resuming(q)) => driver[p] # driver[q]

\* C3: while a resume call is polling or extracting with a parked browser,
\* nobody else has quit that browser.
C3_ResumerOwnsBrowser ==
    \A p \in Procs : Polling(p) => browsers[driver[p]] = "alive"

\* Caller p's call ends in this step.
Exits(p) == pc[p] # "done" /\ pc'[p] = "done"

\* Caller p takes a step from the branch on _poll_login's result.
Decides(p) == pc[p] = "decide" /\ pc'[p] # "decide"

\* scrape's poll ended without success, with a challenge detected.
ChallengePending(p) ==
    op[p] = "scrape" /\ pc[p] = "decide"
    /\ ~login_success[p] /\ challenge_detected[p]

C5_Original ==
    [][\A p \in Procs :
        (op[p] = "resume" /\ Exits(p)
         /\ outcome'[p].kind # "SecurityChallengeError") =>
            /\ session_id[p] \notin DOMAIN registry'
            /\ driver[p] # NoDriver => browsers'[driver[p]] = "quit"]_vars

\* C5 as amended: when resume exits with an outcome other than a renewed
\* SecurityChallengeError, the browser it polled has been quit and no entry
\* under the session key refers to that browser; the renewed-challenge exit
\* removes nothing and quits nothing.
C5_ResumeReleasesItsSession ==
    [][\A p \in Procs :
        (op[p] = "resume" /\ Exits(p)) =>
            IF outcome'[p].kind = "SecurityChallengeError"
            THEN /\ registry' = registry
                 /\ browsers' = browsers
            ELSE driver[p] # NoDriver =>
                    /\ browsers'[driver[p]] = "quit"
                    /\ \A k \in DOMAIN registry' :
                            registry'[k].driver # driver[p]]_vars

C5_Witness ==
    \E p \in Procs :
        /\ op[p] = "resume" /\ pc[p] = "done"
        /\ outcome[p].kind = "LoginIncomplete"
        /\ browsers[driver[p]] = "quit"
        /\ session_id[p] \in DOMAIN registry
        /\ registry[session_id[p]].driver # driver[p]

\* C6: an entry of the registry is never replaced by an entry for another
\* browser without the replaced browser being quit in the same step: the new
\* entry is never visible while the old browser is alive and unreferenced.
C6_ParkEvictsOldSession ==
    [][\A k \in (DOMAIN registry) \cap (DOMAIN registry') :
        registry'[k].driver # registry[k].driver =>
            /\ browsers'[registry[k].driver] = "quit"
            /\ browsers'[registry'[k].driver] = "alive"]_vars

C6_Witness ==
    \E p \in Procs, b \in Browsers :
        /\ op[p] = "scrape" /\ pc[p] = "finally" /\ kept[p]
        /\ session_id[p] \in DOMAIN registry
        /\ registry[session_id[p]].driver = driver[p]
        /\ parked[b] = Evicted /\ browsers[b] = "quit"

\* C7: when scrape's poll ends in a pending challenge and a session_id was
\* given, the step that raises SecurityChallengeError with that session_id
\* has stored the live browser under it with the requested profile URL and
\* created = now, and scrape's finally clause then leaves the browser and
\* the registry alone.
C7_ParkThenRaise ==
    [][\A p \in Procs :
        /\ (ChallengePending(p) /\ session_id[p] # None /\ Decides(p)) =>
                /\ outcome'[p] = Challenge(session_id[p])
                /\ session_id[p] \in DOMAIN registry'
                /\ registry'[session_id[p]] =
                        NewSession(driver[p], profile_url[p], now)
                /\ browsers'[driver[p]] = "alive"
        /\ (op[p] = "scrape" /\ Exits(p)
            /\ outcome[p].kind = "SecurityChallengeError") =>
                /\ outcome'[p] = outcome[p]
                /\ UNCHANGED <<registry, browsers>>]_vars

C7_Witness ==
    \E p \in Procs :
        /\ op[p] = "scrape" /\ pc[p] = "done"
        /\ outcome[p] = Challenge("u1")
        /\ "u1" \in DOMAIN registry
        /\ registry["u1"].driver = driver[p]
        /\ registry["u1"].profile_url = profile_url[p]
        /\ now > 0 /\ registry["u1"].created = now
        /\ browsers[driver[p]] = "alive"

\* C8: when scrape's poll ends in a pending challenge and no session_id was
\* given, scrape raises an error that is not a SecurityChallengeError,
\* leaves the registry unchanged, and quits its browser.
C8_NoKeyNoPark ==
    [][\A p \in Procs :
        /\ (ChallengePending(p) /\ session_id[p] = None /\ Decides(p)) =>
                /\ outcome'[p] = Result("ChallengeTimeout")
                /\ pc'[p] = "finally" /\ ~kept'[p]
                /\ UNCHANGED <<registry, browsers>>
        /\ (op[p] = "scrape" /\ Exits(p)
            /\ outcome[p].kind = "ChallengeTimeout") =>
                /\ outcome'[p].kind # "SecurityChallengeError"
                /\ registry' = registry
                /\ browsers'[driver[p]] = "quit"]_vars

C8_Witness ==
    \E p \in Procs :
        /\ op[p] = "scrape" /\ pc[p] = "done" /\ session_id[p] = None
        /\ outcome[p].kind = "ChallengeTimeout"
        /\ browsers[driver[p]] = "quit"
        /\ driver[p] \notin Drivers(registry)

\* C9: whenever resume raises SecurityChallengeError for key k, the registry
\* at that moment holds the session for k with the browser the call polled,
\* not quit, and with created = now.
C9_RenewedChallengeKeepsSession ==
    [][\A p \in Procs :
        (op[p] = "resume" /\ Decides(p)
         /\ outcome'[p].kind = "SecurityChallengeError") =>
            /\ outcome'[p].session_id = session_id[p]
            /\ session_id[p] \in DOMAIN registry'
            /\ registry'[session_id[p]].driver = driver[p]
            /\ registry'[session_id[p]].created = now
            /\ browsers'[driver[p]] = "alive"]_vars

\* C10: with calls that do not overlap, a resume for key k holds the browser
\* that scrape parked under k, which is the one the registry has under k;
\* text that the extraction returned is what the call ends with; and when
\* the call has returned text, the registry has no entry for k and that
\* browser has been quit.
C10_RoundTrip ==
    [][\A p \in Procs :
        /\ Resuming(p)' =>
                /\ parked'[driver'[p]] = session_id'[p]
                /\ session_id'[p] \in DOMAIN registry'
                /\ registry'[session_id'[p]].driver = driver'[p]
        /\ (op[p] = "resume" /\ outcome[p].kind = "Text") =>
                outcome'[p].kind \in {"Text", None}
        /\ (op[p] = "resume" /\ Exits(p) /\ outcome'[p].kind = "Text") =>
                /\ session_id[p] \notin DOMAIN registry'
                /\ browsers'[driver[p]] = "quit"]_vars

C10_Witness ==
    \E p \in Procs :
        /\ op[p] = "resume" /\ pc[p] = "done"
        /\ outcome[p].kind = "Text"
        /\ browsers[driver[p]] = "quit"
        /\ session_id[p] \notin DOMAIN registry

\* C11: in no reachable state is resume's extraction pipeline running while
\* the registry still holds the entry of the session that resume polled.
C11_ReleasedBeforeExtraction ==
    \A p \in Procs :
        (op[p] = "resume" /\ pc[p] = "extract") =>
            ~(/\ session_id[p] \in DOMAIN registry
              /\ registry[session_id[p]].driver = driver[p])

\* Caller p calls resume_linkedin_session in this step.
ResumeStarts(p) == pc[p] = "idle" /\ op'[p] = "resume"

\* C12: a resume call for a key that has no registry entry ends at once with
\* the no-active-session error: the caller never holds a driver, and the
\* registry and every browser are as they were.
C12_NoSessionNoDriver ==
    [][\A p \in Procs :
        /\ (ResumeStarts(p) /\ session_id'[p] \notin DOMAIN registry) =>
                /\ pc'[p] = "done"
                /\ outcome'[p] = Result("NoActiveSession")
                /\ driver'[p] = NoDriver
                /\ UNCHANGED <<registry, browsers>>
        /\ (outcome[p].kind = "NoActiveSession" /\ pc'[p] # pc[p]) =>
                /\ pc'[p] = "idle"
                /\ UNCHANGED <<registry, browsers>>]_vars

C12_Witness ==
    \E p, q \in Procs :
        /\ op[p] = "resume" /\ pc[p] = "done"
        /\ outcome[p].kind = "NoActiveSession" /\ driver[p] = NoDriver
        /\ op[q] = "scrape" /\ pc[q] = "done"
        /\ outcome[q].kind = "SecurityChallengeError"
        /\ browsers[driver[q]] = "alive"
        /\ registry = [k \in {} |-> NewSession(NoDriver, None, 0)]

\* The positions of a resume call after its try block: nothing is polled
\* from there on.
AfterTry == {"finally", "quit", "done", "idle"}

\* C13: when the liveness probe of a resume call raises, the entry under the
\* session key is removed, the call ends with an error that is not a
\* SecurityChallengeError without ever polling the login page, and the
\* session is not kept: the browser is quit when the call ends.
C13_DeadProbeEvicts ==
    [][\A p \in Procs :
        /\ (pc[p] = "probe" /\ pc'[p] = "dead") =>
                UNCHANGED <<registry, browsers>>
        /\ (pc[p] = "dead" /\ pc'[p] # "dead") =>
                /\ session_id[p] \notin DOMAIN registry'
                /\ outcome'[p] = Result("SessionDead")
                /\ pc'[p] = "finally" /\ ~kept'[p]
        /\ (op[p] = "resume" /\ outcome[p].kind = "SessionDead") =>
                /\ pc'[p] \in AfterTry /\ ~kept'[p]
                /\ outcome'[p].kind \in {"SessionDead", None}
        /\ (op[p] = "resume" /\ outcome[p].kind = "SessionDead" /\ Exits(p)) =>
                browsers'[driver[p]] = "quit"]_vars

C13_Witness ==
    \E p \in Procs :
        /\ op[p] = "resume" /\ pc[p] = "done"
        /\ outcome[p].kind = "SessionDead"
        /\ browsers[driver[p]] = "quit"
        /\ session_id[p] \notin DOMAIN registry

\* Caller p's sweep runs its locked block in this step.
Sweeps(p) == pc[p] = "sweep" /\ pc'[p] # "sweep"

\* C14: the sweep removes and quits exactly the sessions that are more than
\* 120 seconds older than the sweep's reading of the clock; every other
\* session, one of exactly 120 seconds included, keeps its entry, timestamp
\* and browser as they were; a session whose browser has died (its quit
\* raises) is removed like the others, and the others are still processed.
C14_SweepExactlyStale ==
    [][\A p \in Procs : Sweeps(p) =>
        /\ DOMAIN registry' \subseteq DOMAIN registry
        /\ \A k \in DOMAIN registry :
            IF sweep_now[p] - registry[k].created > 120
            THEN /\ k \notin DOMAIN registry'
                 /\ browsers'[registry[k].driver] = "quit"
            ELSE /\ k \in DOMAIN registry'
                 /\ registry'[k] = registry[k]
                 /\ browsers'[registry[k].driver] =
                        browsers[registry[k].driver]]_vars

C14_Witness ==
    \E p \in Procs :
        /\ op[p] = "scrape" /\ pc[p] = "launch" /\ ticks = 0
        /\ DOMAIN registry = {"u1"}
        /\ now - registry["u1"].created = 120
        /\ browsers[RegDriver["u1"]] = "alive"
        /\ browsers[RegDriver["u2"]] = "quit"

\* Caller p calls cleanup_session(k) in this step.
Cleans(p, k) == pc[p] = "idle" /\ op'[p] = "cleanup" /\ session_id'[p] = k

\* C15: cleanup_session(k) takes the entry for k out of the registry and
\* quits the browser of that entry, and only the caller that took the entry
\* out quits it; for a key that is not in the registry (a second call
\* included) it changes nothing and quits nothing; entries under other keys
\* and their browsers are never touched.
C15_CleanupIdempotent ==
    [][\A p \in Procs :
        /\ \A k \in RegKeys : Cleans(p, k) =>
            /\ DOMAIN registry' = (DOMAIN registry) \ {k}
            /\ \A x \in DOMAIN registry' : registry'[x] = registry[x]
            /\ browsers' = browsers
            /\ IF k \in DOMAIN registry
               THEN /\ pc'[p] = "quit" /\ driver'[p] = registry[k].driver
                    /\ \A q \in Procs \ {p} : driver'[q] # driver'[p]
               ELSE /\ pc'[p] = "done" /\ driver'[p] = NoDriver
        /\ (op[p] = "cleanup" /\ Exits(p)) =>
            /\ registry' = registry
            /\ \A b \in Browsers :
                IF b = driver[p] THEN browsers'[b] = "quit"
                ELSE browsers'[b] = browsers[b]]_vars

C15_Witness ==
    \E p, q \in Procs :
        /\ op[p] = "cleanup" /\ pc[p] = "done" /\ session_id[p] = "u1"
        /\ driver[p] = RegDriver["u1"] /\ browsers[driver[p]] = "quit"
        /\ op[q] = "cleanup" /\ pc[q] = "done" /\ session_id[q] = "u1"
        /\ driver[q] = NoDriver
        /\ "u2" \in DOMAIN registry
        /\ browsers[RegDriver["u2"]] = "alive"

\* Caller p's _poll_login samples the page in this step, inside the loop.
LoopPolls(p) ==
    /\ pc[p] = "poll" /\ login_elapsed[p] < login_wait[p]
    /\ pc'[p] # "poll" \/ login_elapsed'[p] # login_elapsed[p]
    /\ outcome'[p].kind # "Error"

\* C16: a poll check of the loop whose sample of the body text has the words
\* of a failed login raises the login-failure error in that very step,
\* whatever is left of the poll budget; from then on the call neither polls
\* nor waits again; and when the call ends its browser has been quit and no
\* registry entry refers to it (in resume, none is left under the key).
C16_HardFailureShortCircuits ==
    [][\A p \in Procs :
        /\ (LoopPolls(p) /\ "incorrect" \in sampled'[p].words) =>
                /\ outcome'[p] = Result("LoginFailed")
                /\ pc'[p] = "finally"
                /\ login_elapsed'[p] # login_elapsed[p] + _LOGIN_POLL_INTERVAL
        /\ outcome[p].kind = "LoginFailed" =>
                /\ pc'[p] \in AfterTry
                /\ login_elapsed'[p] = login_elapsed[p]
                /\ ~kept'[p]
        /\ (outcome[p].kind = "LoginFailed" /\ Exits(p)) =>
                /\ browsers'[driver[p]] = "quit"
                /\ driver[p] \notin Drivers(registry')
                /\ op[p] = "scrape" => registry' = registry
                /\ op[p] = "resume" => session_id[p] \notin DOMAIN registry']_vars

C16_Witness ==
    \E p \in Procs :
        /\ op[p] = "resume" /\ pc[p] = "done"
        /\ outcome[p].kind = "LoginFailed"
        /\ "incorrect" \in sampled[p].words
        /\ login_wait[p] > _LOGIN_POLL_INTERVAL
        /\ browsers[driver[p]] = "quit"
        /\ session_id[p] \notin DOMAIN registry

\* C17: when _poll_login ends with neither success nor a challenge, the call
\* goes on to the extraction pipeline (unless the driver itself raises), in
\* scrape_linkedin_profile and in resume_linkedin_session alike.
C17_InconclusiveProceeds ==
    [][\A p \in Procs :
        (pc[p] = "decide" /\ ~login_success[p] /\ ~challenge_detected[p]
         /\ Decides(p)) =>
            pc'[p] = "extract" \/ outcome'[p].kind = "Error"]_vars

\* C18: a call that returns text returns a text that the validation judged
\* and passed: its trimmed length is at least 200 and it contains a signal
\* keyword.
C18_ReturnedTextPassedGates ==
    \A p \in Procs :
        outcome[p].kind = "Text" =>
            /\ combined[p].verdict = "Text"
            /\ Trimmed(combined[p].text) >= 200
            /\ HasSignal(combined[p].text, ProfileSignals)

C18_Witness ==
    \E p \in Procs :
        /\ op[p] = "resume" /\ pc[p] = "done" /\ outcome[p].kind = "Text"
        /\ combined[p].text.len = 250 /\ combined[p].text.pad = 1
        /\ combined[p].text.tokens = {"Experience"}

\* C19: a text that passed the length gate passes the signal gate exactly
\* when its lower-cased form contains one of the 19 keywords.
C19_SignalGateNineteen ==
    \A p \in Procs :
        (combined[p].verdict # None /\ Trimmed(combined[p].text) >= 200) =>
            (combined[p].verdict = "Text"
                <=> HasSignal(combined[p].text, ProfileSignals))

\* C20: a text that fails the validation is reported by exactly one of three
\* errors, the length gate first: profile-not-found when the trimmed text is
\* under 200 characters and the body shows a page-not-found message,
\* too-short when it is under 200 characters otherwise, no-profile-signal
\* when the length gate passes and no keyword is present.
C20_ThreeContentErrors ==
    \A p \in Procs :
        outcome[p].kind = "ContentInsufficient" =>
            LET c == combined[p] IN
            /\ c.verdict \in {"ProfileNotFound", "TooShort", "NoProfileSignal"}
            /\ c.verdict = "ProfileNotFound" <=>
                    (Trimmed(c.text) < 200 /\ c.notFound)
            /\ c.verdict = "TooShort" <=>
                    (Trimmed(c.text) < 200 /\ ~c.notFound)
            /\ c.verdict = "NoProfileSignal" <=>
                    (Trimmed(c.text) >= 200
                     /\ ~HasSignal(c.text, ScraperSignals))

C20_Witness ==
    \E p \in Procs :
        /\ pc[p] = "done" /\ outcome[p].kind = "ContentInsufficient"
        /\ combined[p].verdict = "ProfileNotFound"
        /\ combined[p].text.len = 200 /\ combined[p].text.pad = 1
        /\ combined[p].text.tokens = {}

\* A _check_budget call is made in this step.
Checks == budget'.checks = budget.checks + 1

\* C21: _check_budget answers True exactly while the clock is less than 90
\* seconds past start_time (False at 90 and beyond); once it has answered
\* False for a start_time it never answers True for it again; and a call
\* changes neither start_time nor anything else of the program's state.
C21_BudgetStrictlyBelowNinety ==
    /\ [](budget.checks > 0 =>
            /\ budget.ok <=> budget.at - budget.start_time < 90
            /\ budget.lapsed => ~budget.ok)
    /\ [][Checks =>
            /\ budget'.start_time = budget.start_time
            /\ UNCHANGED <<observed, shared, clock, pc, locals, sync, parts, scroll, pipe,
                   lock>>
         ]_vars

\* A second check of a budget, made exactly at its limit, has said False.
C21_Witness ==
    /\ budget.checks = 2
    /\ budget.at - budget.start_time = 90
    /\ ~budget.ok

\* Caller p calls scrape_linkedin_profile in this step.
ScrapeStarts(p) == pc[p] = "idle" /\ op'[p] = "scrape"

\* C22: a scrape call without usable credentials ends with the
\* credentials-missing error while the caller holds no driver and without a
\* browser having been launched; the call, up to the sweep, and the failing
\* check leave the registry and every browser as they were, so that the
\* stale sweep is the call's only effect on the registry.
C22_NoCredentialsNoBrowser ==
    /\ [](\A p \in Procs : outcome[p].kind = "CredentialsMissing" =>
            pc[p] = "done" /\ driver[p] = NoDriver)
    /\ [][\A p \in Procs :
            /\ ScrapeStarts(p) => pc'[p] = "sweep" /\ UNCHANGED shared
            /\ Sweeps(p) => pc'[p] = "launch"
            /\ (Exits(p) /\ outcome'[p].kind = "CredentialsMissing") =>
                    /\ pc[p] = "launch"
                    /\ UNCHANGED shared]_vars

\* A call has ended with the credentials-missing error after its sweep took
\* the session under u2 out of the registry and left the one under u1.
C22_Witness ==
    \E p \in Procs :
        /\ pc[p] = "done" /\ outcome[p].kind = "CredentialsMissing"
        /\ DOMAIN registry = {"u1"}
        /\ browsers[RegDriver["u2"]] = "quit"
        /\ parked[RegDriver["u2"]] = None

\* The session parked under k with browser b has been left to age beyond the
\* TTL.
Abandoned(k, b) ==
    /\ k \in DOMAIN registry
    /\ registry[k].driver = b
    /\ now - registry[k].created > 120

\* C24: a scrape call sweeps with the clock reading of its own start, before
\* it has a browser of its own, and that sweep takes every session then
\* older than 120 seconds out of the registry and quits its browser; hence,
\* while scrape calls keep arriving, every abandoned session is eventually
\* gone from the registry with its browser quit.
C24_NextScrapeDestroysAbandoned ==
    /\ [][\A p \in Procs :
            /\ ScrapeStarts(p) =>
                    StaleIds(registry, now) \subseteq
                        StaleIds(registry', sweep_now'[p])
            /\ Sweeps(p) =>
                    /\ driver[p] = NoDriver
                    /\ \A b \in Browsers :
                            browsers[b] = "none" => browsers'[b] = "none"
                    /\ \A k \in DOMAIN registry :
                            sweep_now[p] - registry[k].created > 120 =>
                                /\ k \notin DOMAIN registry'
                                /\ browsers'[registry[k].driver] = "quit"
         ]_vars
    /\ \A k \in RegKeys, b \in Browsers :
            Abandoned(k, b) ~>
                /\ browsers[b] = "quit"
                /\ ~(k \in DOMAIN registry /\ registry[k].driver = b)

\* After the clock has advanced, a scrape call has swept both sessions away,
\* the live browser of the one under u1 included, and is about to launch.
C24_Witness ==
    \E p \in Procs :
        /\ op[p] = "scrape" /\ pc[p] = "launch" /\ ticks > 0
        /\ registry = << >>
        /\ \A k \in RegKeys :
                browsers[RegDriver[k]] = "quit" /\ parked[RegDriver[k]] = None

\* C23: when a resume call has extracted a profile's text, the URL the
\* extraction navigated to is the one recorded in the session's registry
\* entry when it was parked.
C23_ResumeExtractsParkedUrl ==
    \A p \in Procs :
        (/\ op[p] = "resume" /\ pc[p] = "finally"
         /\ outcome[p].kind = "Text"
         /\ session_id[p] \in DOMAIN registry) =>
            combined[p].url = registry[session_id[p]].profile_url

\* What the run that has just ended wrote to the activity log and to the
\* resume store.
Logged == SubSeq(sync.activity, sync.activity0 + 1, Len(sync.activity))
Stored == SubSeq(sync.resumes, sync.resumes0 + 1, Len(sync.resumes))

\* C25: a run of background_sync_linkedin that has ended let no exception
\* escape and wrote exactly one activity-log entry: MISSING_CREDS, with the
\* pipeline never called and one error record stored, when the credentials
\* are missing; SYNCED, with the resume stored once, when the pipeline
\* returned a resume; NO_DATA, with nothing stored, when it returned none;
\* ERROR, with nothing stored, when it raised.
C25_SyncLogsOnceNeverRaises ==
    sync.pc = "done" =>
        /\ ~sync.raised
        /\ Len(Logged) = 1
        /\ ~sync.creds =>
                /\ sync.invoked = 0
                /\ Logged = <<"MISSING_CREDS">> /\ Stored = <<"error">>
        /\ sync.pipeline = "resume" =>
                Logged = <<"SYNCED">> /\ Stored = <<"resume">>
        /\ sync.pipeline = "none" =>
                Logged = <<"NO_DATA">> /\ Stored = << >>
        /\ sync.pipeline = "raised" =>
                Logged = <<"ERROR">> /\ Stored = << >>

\* Caller p's _poll_login makes its final check in this step, the budget
\* being exhausted, and no driver operation raises in it.
FinalChecks(p) ==
    /\ pc[p] = "poll" /\ ~(login_elapsed[p] < login_wait[p])
    /\ pc'[p] # "poll"
    /\ outcome'[p].kind # "Error"

\* C26: when the poll budget is exhausted without success, a challenge is
\* reported only if the page of the final check is on a login-like URL and
\* shows challenge text, and it is reported whenever that page is on a
\* login-like URL and shows one of the keywords both checks look for: a
\* challenge seen at an earlier poll only does not count.
C26_ChallengeOnlyIfStillShown ==
    [][\A p \in Procs : FinalChecks(p) =>
        /\ challenge_detected'[p] =>
                /\ sampled'[p].loginUrl
                /\ sampled'[p].words \cap {"verify", "confirm"} # {}
        /\ (sampled'[p].loginUrl /\ "verify" \in sampled'[p].words) =>
                challenge_detected'[p]]_vars

\* C27: a poll check of the loop that finds the URL past the login pages
\* reports success and leaves the loop in that step, whatever the body text.
C27_PastLoginIsSuccess ==
    [][\A p \in Procs :
        (LoopPolls(p) /\ ~sampled'[p].loginUrl) =>
            login_success'[p] /\ pc'[p] = "decide"]_vars

\* C28: the final check classifies by the keywords of the loop: a page on a
\* login-like URL that shows any of them, "confirm" or "recognize" alone
\* included, is a pending challenge, also when no earlier poll saw one.
C28_FinalCheckSameKeywords ==
    [][\A p \in Procs :
        (/\ FinalChecks(p)
         /\ sampled'[p].loginUrl
         /\ sampled'[p].words \cap {"verify", "confirm"} # {}) =>
            challenge_detected'[p]]_vars

\* ceil(w / 3), and none for a budget of 0 or less.
Ceil3(w) == IF w <= 0 THEN 0 ELSE (w + 2) \div 3

\* Caller p's _poll_login takes a step.
Polls(p) ==
    /\ pc[p] = "poll"
    /\ pc'[p] # "poll" \/ login_elapsed'[p] # login_elapsed[p]

\* C29: _poll_login ends.  While it polls, the time it has waited is 3
\* seconds for each poll check made and never more than ceil(login_wait / 3)
\* checks' worth; a poll check is made only while the budget is not
\* exhausted and either ends the function (success, hard failure, an
\* exception of the driver) or is followed by one wait of 3 seconds; once
\* the budget is exhausted, after exactly ceil(login_wait / 3) checks, the
\* one step left is the final check, which ends the function.
C29_PollTerminatesAfterCeilChecks ==
    /\ [](\A p \in Procs : pc[p] = "poll" =>
            /\ login_elapsed[p] % 3 = 0
            /\ login_elapsed[p] \div 3 <= Ceil3(login_wait[p]))
    /\ [][\A p \in Procs : Polls(p) =>
            IF login_elapsed[p] < login_wait[p]
            THEN \/ /\ pc'[p] = "poll"
                    /\ login_elapsed'[p] = login_elapsed[p] + 3
                 \/ /\ pc'[p] = "decide" /\ login_success'[p]
                 \/ /\ pc'[p] = "finally"
                    /\ outcome'[p].kind \in {"LoginFailed", "Error"}
            ELSE /\ login_elapsed[p] \div 3 = Ceil3(login_wait[p])
                 /\ pc'[p] # "poll"
                 /\ ~login_success'[p]
         ]_vars
    /\ \A p \in Procs : (pc[p] = "poll") ~> (pc[p] # "poll")

\* A loop that has used up a budget that is not a multiple of 3: the final
\* check is next.
C29_Witness ==
    \E p \in Procs :
        /\ pc[p] = "poll"
        /\ login_wait[p] % 3 # 0
        /\ login_elapsed[p] > login_wait[p]

\* The detail pages' text is substantial; the section text is.
DetailLong == Trimmed(parts.detail) > 100
SectionLong == Trimmed(parts.section) > 100

\* C30: the combined text is the section text followed by the detail text
\* when the trimmed detail text is longer than 100, with the raw page text in
\* the place of the section text when the trimmed section text is shorter
\* than 200 and the raw text is not empty; otherwise the section text alone
\* when its trimmed length is above 100; otherwise the raw page text.  In the
\* first case the detail text is part of the result.
C30_CombinePrecedence ==
    parts.step = "validate" =>
        /\ parts.pieces =
            IF DetailLong THEN
                IF Trimmed(parts.section) < 200 /\ parts.raw # Empty
                THEN <<"raw", "detail">>
                ELSE <<"section", "detail">>
            ELSE IF SectionLong THEN <<"section">>
            ELSE <<"raw">>
        /\ DetailLong =>
            /\ \E i \in DOMAIN parts.pieces : parts.pieces[i] = "detail"
            /\ parts.len >= parts.detail.len

\* Detail text of trimmed length 101 met section text of trimmed length 199
\* on a page with raw text: raw and detail were joined.
C30_Witness ==
    /\ parts.step = "validate"
    /\ Trimmed(parts.detail) = 101
    /\ Trimmed(parts.section) = 199
    /\ parts.pieces = <<"raw", "detail">>

\* _progressive_scroll has returned without an exception.
Scrolled == scroll.pc = "done" /\ ~scroll.raised

\* C31: on a page whose height stops changing after k scroll increments,
\* k < max_scrolls, a _progressive_scroll that returns has made exactly k + 1
\* incremental scrolls and has left the window at position 0, however high
\* the page is.
C31_ScrollsOncePastStable ==
    (Scrolled /\ scroll.k < scroll.max_scrolls) =>
        scroll.scrolls = scroll.k + 1 /\ scroll.position = 0

\* The incremental scrolls made so far are at most max_scrolls, of 800 units
\* each.
ScrollsBounded ==
    /\ scroll.scrolls <= scroll.max_scrolls
    /\ scroll.scroll_position = 800 * scroll.scrolls

AtGate == pipe.pc \in {"seemore", "details", "buttons", "visits"}

\* The call's budget is used up.
Exhausted == now - pipe.start_time >= 90

C34_BudgetStartsAfterLogin ==
    pipe.declined.step # None =>
        pipe.declined.at - pipe.login_end >= 90

Inside(l, p) == l.frame[p].at \in InBlock

\* Thread p is between the pop and the insert of a park.
HalfParked(l, p) == l.frame[p].at \in {"park_evict", "park_put"}

\* C36: every statement that reads or writes the registry map (the scan and
\* the del of the sweep, every pop, the get, the refresh, the insert) is
\* executed by the thread that holds the lock, and the map changes in no
\* other step; a thread inside a locked block holds the lock, so no two
\* threads are inside locked blocks at once; and while a park is between its
\* pop and its insert no other thread reads or writes the map.
C36_RegistryOnlyUnderLock ==
    [][/\ lock'.touched # None =>
            lock.holder = lock'.touched /\ lock'.holder = lock'.touched
       /\ registry' # registry => lock'.touched # None
       /\ \A p \in Procs : Inside(lock', p) => lock'.holder = p
       /\ \A p, q \in Procs :
            HalfParked(lock, p) /\ lock'.touched = q => q = p]_vars

\* C36 witness: a park has popped and quit the older session of its key and
\* has not inserted its own yet, while the other thread waits for the lock
\* to look the same key up.
C36_Witness ==
    \E p, q \in Procs :
        /\ lock.frame[p].at = "park_put" /\ lock.frame[p].found
        /\ lock.frame[q].at = "resume_lock"
        /\ lock.frame[q].session_id = lock.frame[p].session_id
        /\ lock.holder = p

\* C37: no thread calls quit() on a browser while it holds the registry
\* lock.
C37_QuitOutsideLock ==
    [][lock'.quit # None => lock.holder # lock'.quit]_vars

\* The session under key k is older than the TTL.
Expired(k) == k \in StaleIds(registry, now)

\* C38: resume_linkedin_session neither sweeps nor looks at a session's age.
\* A resume call for a key the registry has, of whatever age, goes on to the
\* probe with that session's driver; while it probes and polls, the registry
\* and every browser stay as they are; and when the poll ends on a challenge
\* the session's timestamp is set to the current time, the entry otherwise
\* as it was.
C38_ResumeIgnoresAge ==
    [][\A p \in Procs :
        /\ (ResumeStarts(p) /\ session_id'[p] \in DOMAIN registry) =>
                /\ pc'[p] = "probe"
                /\ driver'[p] = registry[session_id'[p]].driver
                /\ UNCHANGED shared
        /\ (op[p] = "resume" /\ pc[p] \in {"probe", "poll"}) =>
                UNCHANGED shared
        /\ (op[p] = "resume" /\ Decides(p) /\ ~login_success[p]
            /\ challenge_detected[p] /\ session_id[p] \in DOMAIN registry) =>
                /\ registry' = [registry EXCEPT
                                    ![session_id[p]].created = now]
                /\ UNCHANGED browsers]_vars

\* C38 witness: a resume call found and polled a session older than the TTL,
\* and the poll ended on a challenge.
C38_Witness ==
    \E p \in Procs :
        /\ op[p] = "resume" /\ pc[p] = "decide"
        /\ ~login_success[p] /\ challenge_detected[p]
        /\ session_id[p] \in DOMAIN registry
        /\ Expired(session_id[p])
        /\ driver[p] = registry[session_id[p]].driver

\* Caller p's step is the park of a scrape call: session_cached becomes true.
Parks(p) == op[p] = "scrape" /\ ~kept[p] /\ kept'[p]

\* Every session of the set K is in the registry after the step as before
\* it, and its browser is in the state it was in.
Untouched(K) ==
    \A k \in K :
        /\ k \in DOMAIN registry'
        /\ registry'[k] = registry[k]
        /\ browsers'[registry[k].driver] = browsers[registry[k].driver]

\* C39: with calls that do not overlap, a scrape call touches the sessions
\* of the registry in two steps only, its sweep and its park.  The call
\* itself and every later step that is not the park (the launch, the login,
\* the poll, the extraction, the finally clause) leave every session, the
\* one under the call's own session_id included, in the registry with its
\* entry and its browser as they were; the sweep leaves every session that
\* is not older than the TTL so.
C39_OnlyParkReplaces ==
    [][\A p \in Procs :
        /\ ScrapeStarts(p) => Untouched(DOMAIN registry)
        /\ (op[p] = "scrape" /\ pc[p] = "sweep") =>
                Untouched(DOMAIN registry \ StaleIds(registry, sweep_now[p]))
        /\ (op[p] = "scrape" /\ pc[p] \notin {"idle", "sweep", "done"}
            /\ ~Parks(p)) =>
                /\ registry' = registry
                /\ Untouched(DOMAIN registry)]_vars

\* C39 witness: a scrape call given the key of a parked session has ended
\* without parking, its own browser quit, and the session parked earlier is
\* in the registry with its browser alive.
C39_Witness ==
    \E p \in Procs :
        /\ op[p] = "scrape" /\ pc[p] = "done" /\ ~kept[p]
        /\ driver[p] # NoDriver /\ browsers[driver[p]] = "quit"
        /\ session_id[p] \in DOMAIN registry
        /\ registry[session_id[p]].driver # driver[p]
        /\ browsers[registry[session_id[p]].driver] = "alive"

====
